---- MODULE Spec2Model ----
(***************************************************************************)
(* Model of the offline-first synchronization core of shelf-serpent-       *)
(* desktop: the SyncEngine orchestrator (sync/engine.rs), the SQLite local *)
(* store (sync/local/sqlite.rs), the remote data source                    *)
(* (sync/remote/supabase.rs) and the sync strategies (sync/strategy.rs).   *)
(***************************************************************************)
EXTENDS Integers, Sequences, FiniteSets, TLC

\* ------------------------------------------------------------------ bounds
\* Largest value of the wall clock (Utc::now()); timestamps are 1..MaxTime.
MaxTime == 2
\* Number of operations accepted by queue_operation that the model follows.
MaxQueue == 1

\* ------------------------------------------------------------- vocabulary
\* Option::None of a timestamp; a timestamp that is Some is in 1..MaxTime.
Null == 0
Time == 1..MaxTime
\* The concurrent callers of the engine (command-layer tasks).
Callers == {"c1", "c2"}
\* Tables of the registry (examples.rs registers strategies by table name).
Tables == {"books", "students"}

\* SyncError::to_string() of the errors the engine produces (sync/error.rs).
ErrSyncInProgress == "Sync already in progress"
ErrOffline == "Invalid data: No internet connection"
ErrNoStrategy == "Configuration error: No strategy registered for table"
\* Errors a dyn SyncStrategy can return or record in SyncSummary.errors.
ErrStrategy == "Network error: strategy failed"
ErrPage == "Database error: page failed"

\* Option<String> last_error: None is the empty list, Some(s) the list of the
\* strings that were joined into s.
NoError == <<>>

\* ------------------------------------------------------------ data model
\* Record ids of the table that is synchronised: one that is not JSON text
\* (as the UUIDs the application uses) and one that is (a numeral).
Ids == {"b1", "7"}
\* Values of the `title` column.
Titles == {"A", "B"}
\* record_id of the row set_last_sync_time writes.
Marker == "_sync_marker_"
\* The version fetch_changes gives a record that carries none.
DefaultVersion == 1

\* DateTime::to_rfc3339 of the timestamps of the model.
TimeName == <<"T1", "T2", "T3", "T4", "T5", "T6">>
ToRfc3339(t) == TimeName[t]
\* DateTime::parse_from_rfc3339(s).ok(): Null when s does not parse.
ParseRfc3339(s) ==
    IF \E t \in DOMAIN TimeName : TimeName[t] = s
    THEN CHOOSE t \in DOMAIN TimeName : TimeName[t] = s
    ELSE Null

\* serde_json::Value::to_string() of a JSON string: the JSON text, quotes
\* included. apply_changes binds this text to the column.
JsonToString(v) == "\"" \o v \o "\""

\* A JSON value that is not an object.
Scalar(v) == [scalar |-> v]
\* The strings of the model and the texts that are JSON numbers.
Strings == Ids \cup Titles \cup {TimeName[t] : t \in DOMAIN TimeName}
Numerals == {"7"}
\* Decoding a TEXT column as serde_json::Value (sqlx Json<T>: the column text
\* is parsed with serde_json::from_str): a quoted string or a number
\* decodes, any other text is a decode error.
JsonFromStr(s) ==
    IF \E v \in Strings : s = JsonToString(v)
    THEN [ok |-> TRUE, value |-> Scalar(CHOOSE v \in Strings : s = JsonToString(v))]
    ELSE IF s \in Numerals THEN [ok |-> TRUE, value |-> Scalar(s)]
    ELSE [ok |-> FALSE, value |-> Scalar("")]

\* A JSON object of a record, as the remote sends it and get_changes builds it.
Object(id, title, at) == [id |-> id, title |-> title, updated_at |-> ToRfc3339(at)]
\* A payload that is not an object.
NonObject == Scalar("x")
IsObject(d) == "scalar" \notin DOMAIN d

\* SyncMetadata.
Metadata(id, at, del, ver) ==
    [id |-> id, updated_at |-> at, deleted_at |-> del, version |-> ver]

\* SyncOperation.
Create(d, m) == [op |-> "Create", data |-> d, metadata |-> m]
Update(d, m) == [op |-> "Update", data |-> d, metadata |-> m]
Delete(id, m) == [op |-> "Delete", data |-> [id |-> id], metadata |-> m]

\* ------------------------------------------------ SqliteLocalDataStore
\* Primary keys the domain table can hold: apply_changes(Create) inserts the
\* JSON text of the id, the application layer and WHERE id = ? use the id.
RowKeys == Ids \cup {JsonToString(i) : i \in Ids}
MetaKeys == Ids \cup {Marker}

\* A row of the domain table (columns title, updated_at, deleted_at), and the
\* absence of one.
Row(title, at, del) ==
    [present |-> TRUE, title |-> title, updated_at |-> at, deleted_at |-> del]
NoRow == [present |-> FALSE, title |-> "", updated_at |-> "", deleted_at |-> Null]

\* A row of sync_metadata, and the absence of one.
MetaRow(at, lv, rv, del) ==
    [present |-> TRUE, last_sync_at |-> at, local_version |-> lv,
     remote_version |-> rv, is_deleted |-> del]
NoMeta ==
    [present |-> FALSE, last_sync_at |-> Null, local_version |-> 0,
     remote_version |-> 0, is_deleted |-> FALSE]

\* The primary keys present in the domain table.
PresentKeys(r) == {k \in RowKeys : r[k].present}

\* The text bound for column k of a Create/Update: the JSON text of the
\* payload's value, or `old` when the payload has no such key.
Bound(d, k, old) == IF k \in DOMAIN d THEN JsonToString(d[k]) ELSE old

\* The state an apply_changes call threads through its statements: the two
\* tables, whether a statement has failed, and the statements executed.
Running(r, m) == [rows |-> r, meta |-> m, ok |-> TRUE, n |-> 0]

\* One sqlx execute(): statement number st.n + 1 of the call. It fails when
\* the pool reports an error for it (failAt names that statement) or when
\* `bad` holds (SQLite rejects it); otherwise the tables become r and m.
Execute(st, failAt, bad, r, m) ==
    IF ~st.ok THEN st
    ELSE IF st.n + 1 = failAt \/ bad THEN [st EXCEPT !.ok = FALSE, !.n = @ + 1]
    ELSE [rows |-> r, meta |-> m, ok |-> TRUE, n |-> st.n + 1]

\* The Create arm: INSERT INTO <table> with every value bound as its JSON
\* text, then INSERT OR REPLACE INTO sync_metadata.
ApplyCreate(st, c, failAt) ==
    IF ~IsObject(c.data) THEN [st EXCEPT !.ok = FALSE]
    ELSE
    LET key == JsonToString(c.data.id)
        s1 == Execute(st, failAt, st.rows[key].present,
                      [st.rows EXCEPT ![key] =
                          Row(Bound(c.data, "title", ""),
                              Bound(c.data, "updated_at", ""), Null)],
                      st.meta)
    IN Execute(s1, failAt, FALSE, s1.rows,
               [s1.meta EXCEPT ![c.metadata.id] =
                   MetaRow(c.metadata.updated_at, c.metadata.version,
                           c.metadata.version, FALSE)])

\* The Update arm: UPDATE <table> SET <every key but id> WHERE id = ?, then
\* UPDATE sync_metadata. Neither statement touches a row that is not there.
ApplyUpdate(st, c, failAt) ==
    IF ~IsObject(c.data) THEN [st EXCEPT !.ok = FALSE]
    ELSE
    LET id == c.metadata.id
        s1 == Execute(st, failAt, DOMAIN c.data \ {"id"} = {},
                      IF st.rows[id].present
                      THEN [st.rows EXCEPT ![id].title = Bound(c.data, "title", @),
                                           ![id].updated_at =
                                               Bound(c.data, "updated_at", @)]
                      ELSE st.rows,
                      st.meta)
    IN Execute(s1, failAt, FALSE, s1.rows,
               IF s1.meta[id].present
               THEN [s1.meta EXCEPT ![id].last_sync_at = c.metadata.updated_at,
                                    ![id].remote_version = c.metadata.version]
               ELSE s1.meta)

\* The Delete arm: UPDATE <table> SET deleted_at = ? WHERE id = ?, then
\* UPDATE sync_metadata SET last_sync_at = ?, is_deleted = TRUE.
ApplyDelete(st, c, failAt) ==
    LET id == c.data.id
        s1 == Execute(st, failAt, FALSE,
                      IF st.rows[id].present
                      THEN [st.rows EXCEPT ![id].deleted_at = c.metadata.deleted_at]
                      ELSE st.rows,
                      st.meta)
    IN Execute(s1, failAt, FALSE, s1.rows,
               IF s1.meta[id].present
               THEN [s1.meta EXCEPT ![id].last_sync_at = c.metadata.deleted_at,
                                    ![id].is_deleted = TRUE]
               ELSE s1.meta)

ApplyOne(st, c, failAt) ==
    CASE c.op = "Create" -> ApplyCreate(st, c, failAt)
      [] c.op = "Update" -> ApplyUpdate(st, c, failAt)
      [] OTHER -> ApplyDelete(st, c, failAt)

\* apply_changes: the operations in order, every statement executed on the
\* pool as it is reached, the first error returned with `?`.
RECURSIVE ApplyFrom(_, _, _)
ApplyFrom(st, changes, failAt) ==
    IF changes = <<>> \/ ~st.ok THEN st
    ELSE ApplyFrom(ApplyOne(st, Head(changes), failAt), Tail(changes), failAt)

ApplyChanges(r, m, changes, failAt) == ApplyFrom(Running(r, m), changes, failAt)

\* get_last_sync_time: SELECT MAX(last_sync_at) FROM sync_metadata.
GetLastSyncTime(m) ==
    LET ts == {m[k].last_sync_at : k \in {j \in MetaKeys : m[j].present}} \ {Null}
    IN IF ts = {} THEN Null ELSE CHOOSE t \in ts : \A u \in ts : u <= t

\* set_last_sync_time: INSERT OR REPLACE of the marker row; the columns it
\* does not name take their defaults.
SetLastSyncTime(m, time) ==
    [m EXCEPT ![Marker] = MetaRow(time, 1, 1, FALSE)]

\* The order in which rows of equal sort key come back.
IdBefore(a, b) == a = "b1" /\ b = "7"

\* The ids in S as a sequence ordered by key[id] (ORDER BY ... ASC).
Ordered(S, key) ==
    LET n == Cardinality(S)
        before(a, b) == key[a] < key[b] \/ (key[a] = key[b] /\ IdBefore(a, b))
    IN CHOOSE q \in [1..n -> S] :
           /\ \A i, j \in 1..n : i # j => q[i] # q[j]
           /\ \A i, j \in 1..n : i < j => before(q[i], q[j])

\* value["updated_at"].as_str().and_then(parse_from_rfc3339): Null unless
\* the value is an object whose updated_at parses.
UpdatedAtOf(d) ==
    IF IsObject(d) /\ "updated_at" \in DOMAIN d THEN ParseRfc3339(d.updated_at)
    ELSE Null

\* get_changes: the sync_metadata rows joined with the domain table on
\* t.id = sm.record_id; with a watermark those with last_sync_at > since,
\* without one those with local_version > remote_version; ordered by
\* last_sync_at. Every row is read as (record_id, local_version,
\* remote_version, is_deleted, data) where data is the fifth column of the
\* SELECT, t.id, decoded as a JSON value; a row that does not decode makes the
\* call return Err(Database). `clock` is Utc::now().
GetChanges(r, m, since, clock) ==
    LET joined == {i \in Ids : m[i].present /\ r[i].present}
        sel == IF since # Null
               THEN {i \in joined : m[i].last_sync_at # Null
                                    /\ m[i].last_sync_at > since}
               ELSE {i \in joined : m[i].local_version > m[i].remote_version}
        q == Ordered(sel, [i \in Ids |-> m[i].last_sync_at])
        data(i) == JsonFromStr(i)
        parsed(i) == UpdatedAtOf(data(i).value)
        md(i) == Metadata(i, IF parsed(i) # Null THEN parsed(i) ELSE clock,
                          IF m[i].is_deleted THEN clock ELSE Null,
                          m[i].local_version)
        change(i) == IF m[i].is_deleted THEN Delete(i, md(i))
                     ELSE IF m[i].remote_version = 0 THEN Create(data(i).value, md(i))
                     ELSE Update(data(i).value, md(i))
    IN IF \E i \in sel : ~data(i).ok THEN [ok |-> FALSE, changes |-> <<>>]
       ELSE [ok |-> TRUE, changes |-> [k \in 1..Len(q) |-> change(q[k])]]

\* ------------------------------------------- SupabaseRemoteDataSource
\* SupabaseConfig.batch_size, the default page limit of fetch_changes.
BatchSize == 100

\* A record of the remote table, and the absence of one.
RemoteRow(title, at) == [present |-> TRUE, title |-> title, updated_at |-> at]
NoRemoteRow == [present |-> FALSE, title |-> "", updated_at |-> Null]

\* The first n elements of q.
Take(q, n) == IF Len(q) <= n THEN q ELSE SubSeq(q, 1, n)

\* fetch_changes(table, since, None, None): the records with
\* updated_at >= since (all without since), ordered by updated_at, at most
\* batch_size of them, each paired with the metadata read from its fields.
FetchChanges(rem, since) ==
    LET sel == {i \in Ids : rem[i].present
                            /\ (since = Null \/ rem[i].updated_at >= since)}
        q == Take(Ordered(sel, [i \in Ids |-> rem[i].updated_at]), BatchSize)
    IN [k \in 1..Len(q) |->
           [data |-> Object(q[k], rem[q[k]].title, rem[q[k]].updated_at),
            metadata |-> Metadata(q[k], rem[q[k]].updated_at, Null, DefaultVersion)]]

\* The remote after it accepted one pushed operation: an upsert by id of the
\* payload for Create/Update (a payload that is not a record stores nothing),
\* a delete by id for Delete.
RemoteAccept(rem, c) ==
    IF c.op = "Delete" THEN [rem EXCEPT ![c.data.id] = NoRemoteRow]
    ELSE IF ~IsObject(c.data) THEN rem
    ELSE [rem EXCEPT ![c.data.id] =
             RemoteRow(c.data.title, ParseRfc3339(c.data.updated_at))]

\* push_changes: one request per operation, in order. `answers` gives the
\* remote's answer to each request: "ok" (2xx: applied, metadata returned),
\* "rejected" (non-2xx: skipped) or "error" (the request failed: push_changes
\* returns the error at once). The result: the remote afterwards, whether
\* Ok was returned, and the metadata returned.
RECURSIVE PushFrom(_, _, _, _)
PushFrom(rem, changes, answers, acked) ==
    IF changes = <<>> THEN [remote |-> rem, ok |-> TRUE, acked |-> acked]
    ELSE CASE Head(answers) = "error" ->
                [remote |-> rem, ok |-> FALSE, acked |-> acked]
           [] Head(answers) = "rejected" ->
                PushFrom(rem, Tail(changes), Tail(answers), acked)
           [] OTHER ->
                PushFrom(RemoteAccept(rem, Head(changes)), Tail(changes),
                         Tail(answers), Append(acked, Head(changes).metadata))

PushChanges(rem, changes, answers) == PushFrom(rem, changes, answers, <<>>)

\* ------------------------------------------------- TwoWaySyncStrategy
\* The id a local change is about.
ChangeId(c) == IF c.op = "Delete" THEN c.data.id ELSE c.metadata.id

\* "Simple conflict detection - if remote has changes for same ID".
HasRemoteConflict(latest, id) ==
    \E k \in 1..Len(latest) : latest[k].metadata.id = id

\* The local changes held back as conflicts, and those pushed.
Conflicting(local, latest) ==
    LET hit(c) == HasRemoteConflict(latest, ChangeId(c)) IN SelectSeq(local, hit)
\* The conflict check left out of the push: every local change is pushed.
SafeLocalChanges_All(local, latest) == local
SafeLocalChanges(local, latest) ==
    LET free(c) == ~HasRemoteConflict(latest, ChangeId(c)) IN SelectSeq(local, free)

\* The remote deltas as the operations the pass applies locally.
AsUpdates(fetched) ==
    [k \in 1..Len(fetched) |-> Update(fetched[k].data, fetched[k].metadata)]

\* The locals of a pass that has not started. Beside the locals of
\* sync_table: `had`, the primary keys the domain table held when the pass
\* started; `pushes`, the arguments of the push_changes calls made so far;
\* `acked`, the metadata push_changes returned; `err`, the call whose error
\* the pass returned.
IdlePass ==
    [pc |-> "idle", last_sync |-> Null, local_changes |-> <<>>,
     remote_changes |-> <<>>, latest_remote |-> <<>>, conflicts |-> <<>>,
     safe_local_changes |-> <<>>, processed |-> 0, pushes |-> <<>>,
     acked |-> <<>>, now |-> Null, had |-> {}, err |-> ""]

VARIABLES
    \* ---- SyncEngine (sync/engine.rs)
    status,      \* SyncStatus behind Arc<RwLock<..>>
    strategies,  \* keys of the strategies registry
    pc,          \* position of every caller's call
    cur,         \* table_name of the sync_table call a caller is in
    ret,         \* where that sync_table call returns to: "idle" or "sa_loop"
    todo,        \* tables the for loop of perform_all_tables_sync has yet to visit
    summaries,   \* Vec<SyncSummary> built by perform_all_tables_sync
    inner,       \* result of perform_table_sync held until the status update
    result,      \* what the last finished call of a caller returned
    runs,        \* strategy passes started per table during a caller's call
    queued,      \* operations handed to queue_operation so far
    now,         \* the wall clock
    \* ---- SqliteLocalDataStore (sync/local/sqlite.rs)
    rows,        \* the domain table, by primary key
    meta,        \* the sync_metadata rows of that table, by record_id
    lastCall,    \* the last direct call on the store and whether it returned Ok
    \* ---- the remote service behind SupabaseRemoteDataSource
    remote,      \* the remote table, by id
    \* ---- a TwoWaySyncStrategy::sync_table pass (sync/strategy.rs)
    tw,          \* its position and locals
    \* ---- a call of a conflict resolver (sync/conflict.rs)
    rcall,       \* its arguments and what it returned
    \* ---- the task spawned by start_background_sync (sync/engine.rs)
    bg,          \* its position in the loop and what its last call returned
    \* ---- a pass of OneWaySyncStrategy or IncrementalSyncStrategy
    sp,          \* the strategy's fields and the locals of sync_table
    \* ---- engine operations with the SyncStatus lock explicit (sync/engine.rs)
    ec,          \* the holder of the write lock and every caller's operation
    \* ---- SyncEngineBuilder (sync/engine.rs)
    builder,     \* the builder's fields and what build returned
    \* ---- SyncService::push_to_supabase and the sync_queue table (sync.rs)
    svc          \* the queue, the remote's record of calls, the call's locals

engineVars == <<status, strategies, pc, cur, ret, todo, summaries, inner, result,
                runs, queued>>
dataVars == <<rows, meta, lastCall, remote, tw>>
\* The variables of the components modelled on their own.
otherVars == <<rcall, bg, sp, ec, builder, svc>>
vars == <<status, strategies, pc, cur, ret, todo, summaries, inner, result,
          runs, queued, now, rows, meta, lastCall, remote, tw, rcall, bg, sp,
          ec, builder, svc>>


\* ------------------------------------------------------------ SyncEngine
\* SyncStatus as SyncEngineBuilder::build constructs it.
InitialStatus ==
    [is_online |-> FALSE, is_syncing |-> FALSE, last_sync |-> Null,
     last_error |-> NoError, database_initialized |-> FALSE,
     initial_sync_completed |-> FALSE]

\* SyncSummary, reduced to the fields the engine reads.
Summary(t, errs) == [table_name |-> t, errors |-> errs]
Ok(v) == [ok |-> TRUE, errors |-> v]
Err(e) == [ok |-> FALSE, errors |-> <<e>>]
NoResult == [ok |-> TRUE, errors |-> <<"none">>]

\* No resolver call made.
NoResolverCall == [pc |-> "none"]
\* start_background_sync has not been called.
NoBackgroundTask == [pc |-> "off", last |-> NoResult]
\* No pass of the One-Way or the Incremental strategy is running. Beside the
\* fields of the strategy and the locals of sync_table: `calls`, the methods
\* of the two data sources the pass has called; `err`, the call whose error
\* the pass returned.
NoStrategyPass ==
    [pc |-> "idle", direction |-> "", batch_size |-> 0, retry_count |-> 0,
     last_sync |-> Null, offset |-> 0, changes |-> <<>>, retry |-> 0,
     remote_changes |-> 0, local_changes |-> 0, errors |-> 0,
     calls |-> {}, err |-> ""]
\* No engine operation is in progress and nobody holds the SyncStatus lock.
NoEngineCalls ==
    [lock |-> "free",
     op |-> [c \in Callers |-> ""],
     at |-> [c \in Callers |-> "idle"],
     answer |-> [c \in Callers |-> ""],
     is_online |-> [c \in Callers |-> FALSE],
     inner |-> [c \in Callers |-> NoResult],
     result |-> [c \in Callers |-> NoResult]]
\* SyncEngineBuilder::new(), build not called.
NewBuilder ==
    [remote |-> FALSE, local |-> FALSE, conflict_resolver |-> FALSE,
     strategies |-> [t \in Tables |-> "none"], out |-> "none", err |-> "",
     engine |-> [built |-> FALSE]]
\* SyncService: an empty sync_queue, push_to_supabase not called. `accepted`
\* holds the ids of the queue entries whose upsert or delete the remote
\* accepted; `last` is the entry the loop handled last and how.
NoService ==
    [queue |-> <<>>, added |-> 0, accepted |-> {}, pc |-> "idle",
     unsynced |-> <<>>, last |-> [id |-> 0, how |-> ""]]
\* The components added to the model after the first four.
LateIdle ==
    /\ ec = NoEngineCalls
    /\ builder = NewBuilder
    /\ svc = NoService
OthersIdle ==
    /\ rcall = NoResolverCall
    /\ bg = NoBackgroundTask
    /\ sp = NoStrategyPass
    /\ LateIdle

\* What a registered strategy's sync_table can return: a clean summary, a
\* summary that recorded a page error, or an error.
StrategyOutcomes == {Ok(<<>>), Ok(<<ErrPage>>), Err(ErrStrategy)}

NoRuns == [t \in Tables |-> 0]

\* A rejected call that clears the flag of the pass in flight.
Rejected_ClearsFlag(st) == [st EXCEPT !.is_syncing = FALSE]
\* The status a call rejected by the guard leaves behind: the early return
\* drops the write guard and nothing was written through it.
Rejected(st) == st

\* A guard that never trips: the re-entrancy check left out.
SyncInProgressGuard_Never(st) == FALSE

\* The re-entrancy guard of sync_table and sync_all_tables.
SyncInProgressGuard(st) == st.is_syncing

\* The check-and-set both entry points perform under the write lock.
CheckAndSet(st) == [st EXCEPT !.is_syncing = TRUE, !.last_error = NoError]

\* The status update with the flag reset made on the Ok arm only.
StatusAfter_ErrorKeepsFlag(st, res) ==
    IF res.ok
    THEN [st EXCEPT !.is_syncing = FALSE,
                    !.last_sync = now,
                    !.last_error = IF res.errors # <<>> THEN res.errors ELSE @]
    ELSE [st EXCEPT !.last_error = res.errors]

\* The status update after perform_table_sync / perform_all_tables_sync.
\* errs is the flattened list of summary errors (Ok) or the error (Err).
StatusAfter(st, res) ==
    IF res.ok
    THEN [st EXCEPT !.is_syncing = FALSE,
                    !.last_sync = now,
                    !.last_error = IF res.errors # <<>> THEN res.errors ELSE @]
    ELSE [st EXCEPT !.is_syncing = FALSE, !.last_error = res.errors]

\* No call in progress on the engine.
CallersIdle ==
    /\ pc = [c \in Callers |-> "idle"]
    /\ cur = [c \in Callers |-> "books"]
    /\ ret = [c \in Callers |-> "idle"]
    /\ todo = [c \in Callers |-> {}]
    /\ summaries = [c \in Callers |-> <<>>]
    /\ inner = [c \in Callers |-> NoResult]
    /\ result = [c \in Callers |-> NoResult]
    /\ runs = [c \in Callers |-> NoRuns]
    /\ queued = 0

\* An empty local database, an empty remote table, no pass in progress.
NoCall == [op |-> "none", ok |-> TRUE, calls |-> 0]
DataIdle ==
    /\ rows = [k \in RowKeys |-> NoRow]
    /\ meta = [k \in MetaKeys |-> NoMeta]
    /\ lastCall = NoCall
    /\ remote = [i \in Ids |-> NoRemoteRow]
    /\ tw = IdlePass

EngineInit ==
    /\ status = InitialStatus
    /\ strategies \in SUBSET Tables
    /\ CallersIdle
    /\ now = 1
    /\ DataIdle
    /\ OthersIdle

\* The wall clock advances.
Tick ==
    /\ now < MaxTime
    /\ now' = now + 1
    /\ UNCHANGED <<engineVars, dataVars, otherVars>>

\* SyncEngine::check_connectivity called from the command layer: the probe
\* answers b, status.is_online takes that value.
CheckConnectivity(b) ==
    /\ status' = [status EXCEPT !.is_online = b]
    /\ UNCHANGED <<strategies, pc, cur, ret, todo, summaries, inner, result,
                   runs, queued, now, dataVars, otherVars>>

\* sync_table, from the call to the end of its check-and-set.
SyncTable(c, t) ==
    /\ pc[c] = "idle"
    /\ IF SyncInProgressGuard(status)
       THEN /\ result' = [result EXCEPT ![c] = Err(ErrSyncInProgress)]
            /\ status' = Rejected(status)
            /\ UNCHANGED <<pc, cur, ret, runs>>
       ELSE /\ status' = CheckAndSet(status)
            /\ pc' = [pc EXCEPT ![c] = "st_perform"]
            /\ cur' = [cur EXCEPT ![c] = t]
            /\ ret' = [ret EXCEPT ![c] = "idle"]
            /\ runs' = [runs EXCEPT ![c] = NoRuns]
            /\ UNCHANGED result
    /\ UNCHANGED <<strategies, todo, summaries, inner, queued, now, dataVars, otherVars>>

\* perform_table_sync up to the strategy call: the connectivity probe (which
\* writes is_online), then the registry lookup.
PerformTableSync(c, online) ==
    /\ pc[c] = "st_perform"
    /\ status' = [status EXCEPT !.is_online = online]
    /\ IF ~online
       THEN /\ inner' = [inner EXCEPT ![c] = Err(ErrOffline)]
            /\ pc' = [pc EXCEPT ![c] = "st_exit"]
            /\ UNCHANGED runs
       ELSE IF cur[c] \notin strategies
       THEN /\ inner' = [inner EXCEPT ![c] = Err(ErrNoStrategy)]
            /\ pc' = [pc EXCEPT ![c] = "st_exit"]
            /\ UNCHANGED runs
       ELSE /\ pc' = [pc EXCEPT ![c] = "st_strategy"]
            /\ runs' = [runs EXCEPT ![c][cur[c]] = @ + 1]
            /\ UNCHANGED inner
    /\ UNCHANGED <<strategies, cur, ret, todo, summaries, result, queued, now, dataVars, otherVars>>

\* The strategy's sync_table returns.
StrategyReturns(c, out) ==
    /\ pc[c] = "st_strategy"
    /\ inner' = [inner EXCEPT ![c] = out]
    /\ pc' = [pc EXCEPT ![c] = "st_exit"]
    /\ UNCHANGED <<status, strategies, cur, ret, todo, summaries, result, runs,
                   queued, now, dataVars, otherVars>>

\* sync_table after perform_table_sync: the flag reset, the status update
\* and the return, to the caller or to the loop of perform_all_tables_sync.
SyncTableExit(c) ==
    /\ pc[c] = "st_exit"
    /\ status' = StatusAfter(status, inner[c])
    /\ IF ret[c] = "idle"
       THEN /\ result' = [result EXCEPT ![c] = inner[c]]
            /\ UNCHANGED summaries
       ELSE /\ summaries' = [summaries EXCEPT ![c] =
                               Append(@, Summary(cur[c], inner[c].errors))]
            /\ UNCHANGED result
    /\ pc' = [pc EXCEPT ![c] = ret[c]]
    /\ inner' = [inner EXCEPT ![c] = NoResult]
    /\ cur' = [cur EXCEPT ![c] = "books"]
    /\ ret' = [ret EXCEPT ![c] = "idle"]
    /\ runs' = [runs EXCEPT ![c] = IF ret[c] = "idle" THEN NoRuns ELSE @]
    /\ UNCHANGED <<strategies, todo, queued, now, dataVars, otherVars>>

\* sync_all_tables, from the call to the end of its check-and-set.
SyncAllTables(c) ==
    /\ pc[c] = "idle"
    /\ IF SyncInProgressGuard(status)
       THEN /\ result' = [result EXCEPT ![c] = Err(ErrSyncInProgress)]
            /\ status' = Rejected(status)
            /\ UNCHANGED <<pc, runs, summaries>>
       ELSE /\ status' = CheckAndSet(status)
            /\ pc' = [pc EXCEPT ![c] = "sa_perform"]
            /\ runs' = [runs EXCEPT ![c] = NoRuns]
            /\ summaries' = [summaries EXCEPT ![c] = <<>>]
            /\ UNCHANGED result
    /\ UNCHANGED <<strategies, cur, ret, todo, inner, queued, now, dataVars, otherVars>>

\* perform_all_tables_sync up to its loop: the connectivity probe.
PerformAllTablesSync(c, online) ==
    /\ pc[c] = "sa_perform"
    /\ status' = [status EXCEPT !.is_online = online]
    /\ IF ~online
       THEN /\ inner' = [inner EXCEPT ![c] = Err(ErrOffline)]
            /\ pc' = [pc EXCEPT ![c] = "sa_exit"]
            /\ UNCHANGED todo
       ELSE /\ todo' = [todo EXCEPT ![c] = strategies]
            /\ pc' = [pc EXCEPT ![c] = "sa_loop"]
            /\ UNCHANGED inner
    /\ UNCHANGED <<strategies, cur, ret, summaries, result, runs, queued, now, dataVars, otherVars>>

\* One iteration of `for table_name in strategies.keys()`: the call of
\* self.sync_table(table_name), up to the end of that call's check-and-set.
\* A rejected call is turned into a summary that carries the error.
AllTablesLoop(c, t) ==
    /\ pc[c] = "sa_loop"
    /\ t \in todo[c]
    /\ todo' = [todo EXCEPT ![c] = @ \ {t}]
    /\ IF SyncInProgressGuard(status)
       THEN /\ summaries' = [summaries EXCEPT ![c] =
                               Append(@, Summary(t, <<ErrSyncInProgress>>))]
            /\ status' = Rejected(status)
            /\ UNCHANGED <<pc, cur, ret>>
       ELSE /\ status' = CheckAndSet(status)
            /\ pc' = [pc EXCEPT ![c] = "st_perform"]
            /\ cur' = [cur EXCEPT ![c] = t]
            /\ ret' = [ret EXCEPT ![c] = "sa_loop"]
            /\ UNCHANGED summaries
    /\ UNCHANGED <<strategies, inner, result, runs, queued, now, dataVars, otherVars>>

\* The errors of all summaries, flattened in order.
RECURSIVE TotalErrors(_)
TotalErrors(ss) ==
    IF ss = <<>> THEN <<>> ELSE Head(ss).errors \o TotalErrors(Tail(ss))

\* The loop is over: perform_all_tables_sync returns Ok(summaries).
AllTablesLoopEnd(c) ==
    /\ pc[c] = "sa_loop"
    /\ todo[c] = {}
    /\ inner' = [inner EXCEPT ![c] = Ok(TotalErrors(summaries[c]))]
    /\ pc' = [pc EXCEPT ![c] = "sa_exit"]
    /\ UNCHANGED <<status, strategies, cur, ret, todo, summaries, result, runs,
                   queued, now, dataVars, otherVars>>

\* sync_all_tables after perform_all_tables_sync: flag reset, status update.
SyncAllTablesExit(c) ==
    /\ pc[c] = "sa_exit"
    /\ status' = StatusAfter(status, inner[c])
    /\ result' = [result EXCEPT ![c] = inner[c]]
    /\ pc' = [pc EXCEPT ![c] = "idle"]
    /\ inner' = [inner EXCEPT ![c] = NoResult]
    /\ summaries' = [summaries EXCEPT ![c] = <<>>]
    /\ runs' = [runs EXCEPT ![c] = NoRuns]
    /\ UNCHANGED <<strategies, cur, ret, todo, queued, now, dataVars, otherVars>>

\* SyncEngine::get_pending_operations_count.
GetPendingOperationsCount == 0

\* queue_operation (sync/simple.rs): logs and returns Ok(()).
QueueOperation ==
    /\ queued < MaxQueue
    /\ queued' = queued + 1
    /\ UNCHANGED <<status, strategies, pc, cur, ret, todo, summaries, inner,
                   result, runs, now, dataVars, otherVars>>

EngineNext ==
    \/ Tick
    \/ \E b \in BOOLEAN : CheckConnectivity(b)
    \/ \E c \in Callers, t \in Tables : SyncTable(c, t)
    \/ \E c \in Callers, b \in BOOLEAN : PerformTableSync(c, b)
    \/ \E c \in Callers, out \in StrategyOutcomes : StrategyReturns(c, out)
    \/ \E c \in Callers : SyncTableExit(c)
    \/ \E c \in Callers : SyncAllTables(c)
    \/ \E c \in Callers, b \in BOOLEAN : PerformAllTablesSync(c, b)
    \/ \E c \in Callers, t \in Tables : AllTablesLoop(c, t)
    \/ \E c \in Callers : AllTablesLoopEnd(c)
    \/ \E c \in Callers : SyncAllTablesExit(c)
    \/ QueueOperation

\* ------------------------------------------------- claims on the SyncEngine
\* Calls of a caller that are between their check-and-set of is_syncing and
\* their reset of it: the sync_table call it is in, and the sync_all_tables
\* call it is in (which may itself be inside a nested sync_table).
CallsInFlight(c) ==
    (IF pc[c] \in {"st_perform", "st_strategy", "st_exit"} THEN 1 ELSE 0)
    + (IF pc[c] \in {"sa_perform", "sa_loop", "sa_exit"} \/ ret[c] = "sa_loop"
       THEN 1 ELSE 0)

RECURSIVE SumInFlight(_)
SumInFlight(S) ==
    IF S = {} THEN 0
    ELSE LET c == CHOOSE x \in S : TRUE IN CallsInFlight(c) + SumInFlight(S \ {c})

\* A step in which a caller's call found is_syncing = TRUE: the call returns
\* SyncInProgress (to the caller, or as the table's summary inside the loop of
\* perform_all_tables_sync), starts no strategy and is not in flight afterwards.
RejectedCallRunsNothing ==
    \A c \in Callers :
        /\ (pc[c] = "idle" /\ status.is_syncing
              /\ <<pc[c], result[c]>>' # <<pc[c], result[c]>>)
           => /\ pc'[c] = "idle"
              /\ result'[c] = Err(ErrSyncInProgress)
              /\ runs' = runs
        /\ (pc[c] = "sa_loop" /\ status.is_syncing /\ todo'[c] # todo[c])
           => /\ pc'[c] = "sa_loop"
              /\ Len(summaries'[c]) = Len(summaries[c]) + 1
              /\ summaries'[c][Len(summaries'[c])].errors = <<ErrSyncInProgress>>
              /\ runs' = runs

\* C1: for any interleaving of sync_table and sync_all_tables calls at most one
\* call is between its check-and-set of is_syncing and its reset of the flag,
\* and a call that finds is_syncing = TRUE returns SyncInProgress without
\* running any strategy.
C1_OneSyncInFlight ==
    /\ [](SumInFlight(Callers) <= 1)
    /\ [][RejectedCallRunsNothing]_vars

\* C1 witness: one caller's strategy pass is in flight while another caller's
\* call has been rejected with SyncInProgress.
C1_Witness ==
    \E c, d \in Callers :
        /\ c # d
        /\ pc[c] = "st_strategy"
        /\ result[d] = Err(ErrSyncInProgress)

\* C2: a sync_all_tables call that started on an idle engine and whose
\* connectivity probe returned true (so that perform_all_tables_sync returned
\* Ok) has run the strategy of every registered table exactly once, and a
\* failing table's error is in that table's summary only.
C2_AllTablesRunOnce ==
    \A c \in Callers :
        (pc[c] = "sa_exit" /\ inner[c].ok)
        => /\ \A t \in strategies : runs[c][t] = 1
           /\ Len(summaries[c]) = Cardinality(strategies)

\* C7: an operation handed to queue_operation stays pending until a sync pass
\* has pushed it: as long as no sync pass has completed, the pending count
\* covers every queued operation.
C7_QueuedStaysPending ==
    (queued > 0 /\ status.last_sync = Null) => GetPendingOperationsCount >= queued

Spec == EngineInit /\ [][EngineNext]_vars

\* ----------------------------------- the local store, called directly
\* Largest number of operations in one apply_changes batch.
MaxBatch == 2
\* Number of calls made on the store in one run.
MaxCalls == 2

\* A row as the application layer wrote it, and the sync_metadata row of a
\* record with a local change the remote has not seen.
LocalRow == Row("A", ToRfc3339(1), Null)
PendingMeta == MetaRow(Null, 2, 1, FALSE)

\* The local databases a run starts from: every record is absent, present
\* without sync metadata, or present with a pending local change.
InitialStore ==
    /\ \E present \in SUBSET Ids, pending \in SUBSET Ids :
          /\ pending \subseteq present
          /\ rows = [k \in RowKeys |-> IF k \in present THEN LocalRow ELSE NoRow]
          /\ meta = [k \in MetaKeys |-> IF k \in pending THEN PendingMeta ELSE NoMeta]

\* The operations the model hands to apply_changes.
InputOps ==
    {Create(Object(i, "A", a), Metadata(i, a, Null, DefaultVersion)) :
        i \in Ids, a \in Time}
    \cup {Update(Object(i, "B", a), Metadata(i, a, Null, DefaultVersion)) :
        i \in Ids, a \in Time}
    \cup {Update(NonObject, Metadata(i, 1, Null, DefaultVersion)) : i \in Ids}
    \cup {Delete(i, Metadata(i, 1, d, DefaultVersion)) :
        i \in Ids, d \in Time \cup {Null}}

Batches == UNION {[1..n -> InputOps] : n \in 1..MaxBatch}

StoreInit ==
    /\ status = InitialStatus
    /\ strategies = {}
    /\ CallersIdle
    /\ now = 1
    /\ InitialStore
    /\ lastCall = NoCall
    /\ remote = [i \in Ids |-> NoRemoteRow]
    /\ tw = IdlePass
    /\ OthersIdle

\* A call of apply_changes; failAt names the statement at which the pool
\* reports an error, 0 for none.
ApplyChangesCall(changes, failAt) ==
    /\ lastCall.calls < MaxCalls
    /\ failAt <= 2 * Len(changes)
    /\ LET r == ApplyChanges(rows, meta, changes, failAt)
       IN /\ rows' = r.rows
          /\ meta' = r.meta
          /\ lastCall' = [op |-> "apply_changes", ok |-> r.ok,
                          calls |-> lastCall.calls + 1]
    /\ UNCHANGED <<engineVars, otherVars, now, remote, tw>>

\* A call of set_last_sync_time.
SetLastSyncTimeCall(time) ==
    /\ lastCall.calls < MaxCalls
    /\ meta' = SetLastSyncTime(meta, time)
    /\ lastCall' = [op |-> "set_last_sync_time", ok |-> TRUE,
                    calls |-> lastCall.calls + 1]
    /\ UNCHANGED <<engineVars, otherVars, now, rows, remote, tw>>

StoreNext ==
    \/ \E changes \in Batches, failAt \in 0..(2 * MaxBatch) :
          ApplyChangesCall(changes, failAt)
    \/ \E time \in Time : SetLastSyncTimeCall(time)

SpecStore == StoreInit /\ [][StoreNext]_vars

\* ------------------------------------------------ claims on the local store
\* C3: the value returned by get_last_sync_time never decreases, whatever
\* apply_changes and set_last_sync_time calls are made (None is below every
\* timestamp).
C3_WatermarkNeverDecreases ==
    [][GetLastSyncTime(meta') >= GetLastSyncTime(meta)]_vars

\* C8: for every batch of operations, applying it a second time succeeds and
\* leaves the store exactly as the first application left it.
C8_ApplyTwiceIsApplyOnce ==
    \A changes \in Batches :
        LET once == ApplyChanges(rows, meta, changes, 0)
            twice == ApplyChanges(once.rows, once.meta, changes, 0)
        IN once.ok => (twice.ok /\ twice.rows = once.rows /\ twice.meta = once.meta)

\* C9: apply_changes never removes a row, and after Delete{id} has been
\* applied to a store that holds the row of id, that row still exists with
\* deleted_at set and its sync metadata has is_deleted set.
C9_DeleteIsSoft ==
    \A changes \in Batches :
        LET after == ApplyChanges(rows, meta, changes, 0)
            last == changes[Len(changes)]
            id == last.data.id
        IN /\ PresentKeys(rows) \subseteq PresentKeys(after.rows)
           /\ (after.ok /\ last.op = "Delete" /\ rows[id].present)
              => /\ after.rows[id].present
                 /\ after.rows[id].deleted_at # Null
                 /\ after.meta[id].present
                 /\ after.meta[id].is_deleted

\* C10: an apply_changes call that returns an error leaves the local store
\* as it was before the call: no data write and no sync-metadata write of the
\* batch is visible.
C10_FailedBatchLeavesNoTrace ==
    [][(lastCall'.calls > lastCall.calls /\ lastCall'.op = "apply_changes"
           /\ ~lastCall'.ok)
       => (rows' = rows /\ meta' = meta)]_vars

\* ------------------------------------------------ a Two-Way strategy pass
\* The sync_metadata row apply_changes(Create) leaves for a record of
\* version 1 updated at T1.
SyncedMeta == MetaRow(1, DefaultVersion, DefaultVersion, FALSE)

\* The local databases a pass starts from: every record is absent, present
\* without sync metadata, present with a pending local change, or present
\* with the metadata of an earlier Create.
SyncedStore ==
    \E kind \in [Ids -> {"absent", "row", "pending", "synced"}] :
       /\ rows = [k \in RowKeys |->
                    IF k \in Ids /\ kind[k] # "absent" THEN LocalRow ELSE NoRow]
       /\ meta = [k \in MetaKeys |->
                    IF k \in Ids /\ kind[k] = "pending" THEN PendingMeta
                    ELSE IF k \in Ids /\ kind[k] = "synced" THEN SyncedMeta
                    ELSE NoMeta]

TwoWayInit ==
    /\ status = InitialStatus
    /\ strategies = {}
    /\ CallersIdle
    /\ now = 1
    /\ SyncedStore
    /\ lastCall = NoCall
    /\ remote = [i \in Ids |-> NoRemoteRow]
    /\ tw = IdlePass
    /\ OthersIdle

\* Another client writes record i on the remote; the remote stamps it.
RemoteWrite(i, title) ==
    /\ remote' = [remote EXCEPT ![i] = RemoteRow(title, now)]
    /\ UNCHANGED <<engineVars, otherVars, now, rows, meta, lastCall, tw>>

\* The pass returns the error of `call` through `?`.
Failed(call) == [tw EXCEPT !.pc = "failed", !.err = call]
\* Where the pass goes after the remote deltas: the conflict probe when there
\* are local changes, the watermark otherwise.
AfterRemote(local) == IF local # <<>> THEN "probe" ELSE "mark"

\* get_last_sync_time and get_changes.
TwStart ==
    /\ tw.pc = "idle"
    /\ LET last_sync == GetLastSyncTime(meta)
           got == GetChanges(rows, meta, last_sync, now)
           begun == [IdlePass EXCEPT !.last_sync = last_sync,
                                     !.had = PresentKeys(rows)]
       IN tw' = IF got.ok
                THEN [begun EXCEPT !.pc = "fetch", !.local_changes = got.changes]
                ELSE [begun EXCEPT !.pc = "failed", !.err = "get_changes"]
    /\ UNCHANGED <<engineVars, otherVars, now, rows, meta, lastCall, remote>>

\* remote.fetch_changes(table, last_sync, None, None); ok is whether the
\* request succeeds.
TwFetch(ok) ==
    /\ tw.pc = "fetch"
    /\ LET fetched == FetchChanges(remote, tw.last_sync)
       IN tw' = IF ~ok THEN Failed("fetch_changes")
                ELSE [tw EXCEPT !.remote_changes = fetched,
                                !.pc = IF fetched # <<>> THEN "apply"
                                       ELSE AfterRemote(tw.local_changes)]
    /\ UNCHANGED <<engineVars, otherVars, now, rows, meta, lastCall, remote>>

\* local.apply_changes of the remote deltas as Update operations.
TwApply(failAt) ==
    /\ tw.pc = "apply"
    /\ failAt <= 2 * Len(tw.remote_changes)
    /\ LET r == ApplyChanges(rows, meta, AsUpdates(tw.remote_changes), failAt)
       IN /\ rows' = r.rows
          /\ meta' = r.meta
          /\ tw' = IF ~r.ok THEN Failed("apply_changes")
                   ELSE [tw EXCEPT !.processed = @ + Len(tw.remote_changes),
                                   !.pc = AfterRemote(tw.local_changes)]
    /\ UNCHANGED <<engineVars, otherVars, now, lastCall, remote>>

\* remote.fetch_changes(table, Some(Utc::now()), None, None) and the split of
\* the local changes into conflicts and safe changes.
TwProbe(ok) ==
    /\ tw.pc = "probe"
    /\ LET latest == FetchChanges(remote, now)
           safe == SafeLocalChanges(tw.local_changes, latest)
       IN tw' = IF ~ok THEN Failed("fetch_changes")
                ELSE [tw EXCEPT !.latest_remote = latest,
                                !.conflicts = Conflicting(tw.local_changes, latest),
                                !.safe_local_changes = safe,
                                !.pc = IF safe # <<>> THEN "push" ELSE "mark"]
    /\ UNCHANGED <<engineVars, otherVars, now, rows, meta, lastCall, remote>>

\* remote.push_changes(table, &safe_local_changes).
TwPush(answers) ==
    /\ tw.pc = "push"
    /\ Len(answers) = Len(tw.safe_local_changes)
    /\ LET p == PushChanges(remote, tw.safe_local_changes, answers)
           called == [tw EXCEPT !.pushes = Append(@, tw.safe_local_changes),
                                !.acked = p.acked]
       IN /\ remote' = p.remote
          /\ tw' = IF ~p.ok
                   THEN [called EXCEPT !.pc = "failed", !.err = "push_changes"]
                   ELSE [called EXCEPT !.processed = @ + Len(tw.safe_local_changes),
                                       !.pc = "mark"]
    /\ UNCHANGED <<engineVars, otherVars, now, rows, meta, lastCall>>

\* let now = Utc::now(); local.set_last_sync_time(table, now); ok is whether
\* the statement succeeds.
TwMark(ok) ==
    /\ tw.pc = "mark"
    /\ meta' = IF ok THEN SetLastSyncTime(meta, now) ELSE meta
    /\ tw' = IF ok THEN [tw EXCEPT !.now = now, !.pc = "done"]
             ELSE [Failed("set_last_sync_time") EXCEPT !.now = now]
    /\ UNCHANGED <<engineVars, otherVars, now, rows, lastCall, remote>>

\* sync_table returns; the strategy can be called again.
TwReturn ==
    /\ tw.pc \in {"done", "failed"}
    /\ tw' = IdlePass
    /\ UNCHANGED <<engineVars, otherVars, now, rows, meta, lastCall, remote>>

Answers == {"ok", "rejected", "error"}

TwoWayNext ==
    \/ Tick
    \/ \E i \in Ids, title \in Titles : RemoteWrite(i, title)
    \/ TwStart
    \/ \E ok \in BOOLEAN : TwFetch(ok)
    \/ \E failAt \in 0..(2 * Cardinality(Ids)) : TwApply(failAt)
    \/ \E ok \in BOOLEAN : TwProbe(ok)
    \/ \E answers \in UNION {[1..n -> Answers] : n \in 1..Cardinality(Ids)} :
          TwPush(answers)
    \/ \E ok \in BOOLEAN : TwMark(ok)
    \/ TwReturn

SpecTwoWay == TwoWayInit /\ [][TwoWayNext]_vars

\* ------------------------------------------------ claims on a Two-Way pass
\* The ids the remote reported in a fetch result.
ReportedIds(fetched) == {fetched[k].metadata.id : k \in 1..Len(fetched)}

\* C4: during a Two-Way pass the watermark keeps the value it had when the
\* pass started until apply_changes and push_changes have both succeeded
\* (the pass is about to call set_last_sync_time), and a pass in which
\* fetch_changes, apply_changes or push_changes failed returns with the
\* watermark it started with.
C4_WatermarkMovesOnlyAfterCommit ==
    /\ tw.pc \in {"fetch", "apply", "probe", "push", "mark"}
          => GetLastSyncTime(meta) = tw.last_sync
    /\ (tw.pc = "failed"
        /\ tw.err \in {"fetch_changes", "apply_changes", "push_changes"})
          => GetLastSyncTime(meta) = tw.last_sync

\* C5: a Two-Way pass that started without a local record b1 and without
\* local changes, and to which the remote returned the single record
\* b1 (title A, updated_at T1), ends with b1 in the local store with title A
\* and with the watermark equal to T1.
C5_CleanPull ==
    \A t1 \in Time :
        (/\ tw.pc = "done"
         /\ tw.had \cap {"b1", JsonToString("b1")} = {}
         /\ tw.local_changes = <<>>
         /\ tw.remote_changes =
               << [data |-> Object("b1", "A", t1),
                   metadata |-> Metadata("b1", t1, Null, DefaultVersion)] >>)
        => /\ rows["b1"].present
           /\ rows["b1"].title = "A"
           /\ GetLastSyncTime(meta) = t1

\* Record i has a local change the remote has not seen, and it is an Update.
PendingUpdate(i) ==
    /\ rows[i].present
    /\ meta[i].present
    /\ ~meta[i].is_deleted
    /\ meta[i].remote_version # 0
    /\ meta[i].local_version > meta[i].remote_version

\* C6: a Two-Way pass on a store whose only pending change is an Update of
\* b1, to which the remote reports no record b1, and in which no request to
\* the remote and no statement of the store is refused, returns Ok after one
\* push_changes call whose argument is exactly that Update, with the
\* watermark set to the time of the end of the pass.
C6_LocalOnlyChangeIsPushed ==
    (/\ tw.pc \in {"done", "failed"}
     /\ tw.err \in {"", "get_changes"}
     /\ tw.last_sync = Null
     /\ PendingUpdate("b1")
     /\ ~PendingUpdate("7")
     /\ "b1" \notin ReportedIds(tw.remote_changes) \cup ReportedIds(tw.latest_remote))
    => /\ tw.pc = "done"
       /\ Len(tw.pushes) = 1
       /\ Len(tw.pushes[1]) = 1
       /\ tw.pushes[1][1].op = "Update"
       /\ ChangeId(tw.pushes[1][1]) = "b1"
       /\ GetLastSyncTime(meta) = tw.now

\* ------------------------------------------------------ conflict resolvers
\* JSON values of the fields of a record: null, a string, an array of
\* strings, or an object with string values. Every value has the four
\* components so that any two can be compared.
NoItems == <<>>
NoMembers == [k \in {} |-> ""]
JNull == [t |-> "null", s |-> "", a |-> NoItems, o |-> NoMembers]
JStr(v) == [t |-> "str", s |-> v, a |-> NoItems, o |-> NoMembers]
JArr(q) == [t |-> "arr", s |-> "", a |-> q, o |-> NoMembers]
JObj(f) == [t |-> "obj", s |-> "", a |-> NoItems, o |-> f]

\* The payload of one side of a conflict: an object with fields, or a value
\* that is not an object.
NoFields == [k \in {} |-> JNull]
Record(f) == [obj |-> TRUE, f |-> f, s |-> ""]
Plain(v) == [obj |-> FALSE, f |-> NoFields, s |-> v]

\* SyncConflict.
Conflict(l, r, lm, rm) ==
    [local |-> l, remote |-> r, local_metadata |-> lm, remote_metadata |-> rm]

\* ConflictResolutionStrategy.
Strategies == {"LocalWins", "RemoteWins", "NewestWins", "Merge", "Manual"}

\* SyncResult<Value> of a resolver, for a record and for a field.
ErrManual == "Conflict resolution failed: Manual resolution required"
ErrManualStore == "Conflict resolution failed: Manual conflict resolution required"
ErrLocalNotObject == "Invalid data: Local data must be an object"
ErrRemoteNotObject == "Invalid data: Remote data must be an object"
Resolved(v) == [ok |-> TRUE, value |-> v, err |-> ""]
Refused(e) == [ok |-> FALSE, value |-> Plain(""), err |-> e]
ResolvedField(v) == [ok |-> TRUE, value |-> v, err |-> ""]
RefusedField(e) == [ok |-> FALSE, value |-> JNull, err |-> e]

\* The array merge of merge_field: local then remote, the first occurrence
\* of every value kept.
RECURSIVE Dedup(_)
Dedup(q) ==
    IF q = <<>> THEN <<>>
    ELSE LET front == Dedup(SubSeq(q, 1, Len(q) - 1))
             last == q[Len(q)]
         IN IF \E i \in 1..Len(front) : front[i] = last THEN front
            ELSE Append(front, last)

\* merge_field on two strings inside nested objects: equal values are kept,
\* otherwise the side with the newer metadata wins, local on a tie.
MergeLeaf(l, r, lm, rm) ==
    IF l = r THEN l
    ELSE IF rm.updated_at > lm.updated_at THEN r ELSE l

\* The keys of two objects merged; `both` holds the merged values of the
\* keys the two share.
MergeMembers(lo, ro, both) ==
    [k \in DOMAIN lo \cup DOMAIN ro |->
        IF k \in DOMAIN lo /\ k \in DOMAIN ro THEN both[k]
        ELSE IF k \in DOMAIN lo THEN lo[k] ELSE ro[k]]

\* merge_field on two field values.
MergeField(l, r, lm, rm) ==
    IF l = r THEN l
    ELSE IF l.t = "null" THEN r
    ELSE IF r.t = "null" THEN l
    ELSE IF l.t = "arr" /\ r.t = "arr" THEN JArr(Dedup(l.a \o r.a))
    ELSE IF l.t = "obj" /\ r.t = "obj"
    THEN LET leaf == [k \in DOMAIN l.o \cap DOMAIN r.o |->
                         MergeLeaf(l.o[k], r.o[k], lm, rm)]
         IN JObj(MergeMembers(l.o, r.o, leaf))
    ELSE IF rm.updated_at > lm.updated_at THEN r ELSE l

\* merge_values keeping only the keys of the local record.
MergeValues_LocalKeys(c) ==
    IF ~c.local.obj THEN Refused(ErrLocalNotObject)
    ELSE IF ~c.remote.obj THEN Refused(ErrRemoteNotObject)
    ELSE Resolved(c.local)

\* DefaultConflictResolver::merge_values on the two records of a conflict.
MergeValues(c) ==
    IF ~c.local.obj THEN Refused(ErrLocalNotObject)
    ELSE IF ~c.remote.obj THEN Refused(ErrRemoteNotObject)
    ELSE LET field == [k \in DOMAIN c.local.f \cap DOMAIN c.remote.f |->
                          MergeField(c.local.f[k], c.remote.f[k],
                                     c.local_metadata, c.remote_metadata)]
         IN Resolved(Record(MergeMembers(c.local.f, c.remote.f, field)))

\* resolve with NewestWins keeping the local record on equal timestamps.
DefaultResolve_TieLocal(c, strategy) ==
    CASE strategy = "LocalWins" -> Resolved(c.local)
      [] strategy = "RemoteWins" -> Resolved(c.remote)
      [] strategy = "NewestWins" ->
            IF c.local_metadata.updated_at >= c.remote_metadata.updated_at
            THEN Resolved(c.local) ELSE Resolved(c.remote)
      [] strategy = "Merge" -> MergeValues(c)
      [] OTHER -> Refused(ErrManual)

\* resolve with LocalWins and RemoteWins deciding by timestamp.
DefaultResolve_ByTime(c, strategy) ==
    CASE strategy \in {"LocalWins", "RemoteWins", "NewestWins"} ->
            IF c.local_metadata.updated_at > c.remote_metadata.updated_at
            THEN Resolved(c.local) ELSE Resolved(c.remote)
      [] strategy = "Merge" -> MergeValues(c)
      [] OTHER -> Refused(ErrManual)

\* DefaultConflictResolver::resolve.
DefaultResolve(c, strategy) ==
    CASE strategy = "LocalWins" -> Resolved(c.local)
      [] strategy = "RemoteWins" -> Resolved(c.remote)
      [] strategy = "NewestWins" ->
            IF c.local_metadata.updated_at > c.remote_metadata.updated_at
            THEN Resolved(c.local) ELSE Resolved(c.remote)
      [] strategy = "Merge" -> MergeValues(c)
      [] OTHER -> Refused(ErrManual)

\* TimestampConflictResolver::resolve: the strategy is not read.
TimestampResolve(c, strategy) ==
    IF c.remote_metadata.updated_at > c.local_metadata.updated_at
    THEN Resolved(c.remote) ELSE Resolved(c.local)

\* DefaultConflictResolver::resolve on the field conflict that
\* FieldLevelConflictResolver builds from the two values of one field.
ResolveField(l, r, lm, rm, strategy) ==
    CASE strategy = "LocalWins" -> ResolvedField(l)
      [] strategy = "RemoteWins" -> ResolvedField(r)
      [] strategy = "NewestWins" ->
            IF lm.updated_at > rm.updated_at THEN ResolvedField(l)
            ELSE ResolvedField(r)
      [] strategy = "Merge" ->
            IF l.t # "obj" THEN RefusedField(ErrLocalNotObject)
            ELSE IF r.t # "obj" THEN RefusedField(ErrRemoteNotObject)
            ELSE LET leaf == [k \in DOMAIN l.o \cap DOMAIN r.o |->
                                 MergeLeaf(l.o[k], r.o[k], lm, rm)]
                 IN ResolvedField(JObj(MergeMembers(l.o, r.o, leaf)))
      [] OTHER -> RefusedField(ErrManual)

\* The loop of FieldLevelConflictResolver::resolve over all_keys, visited in
\* `order`; the first field error is returned with `?`.
RECURSIVE FieldLevelFrom(_, _, _, _, _)
FieldLevelFrom(c, default_strategy, field_strategies, order, resolved) ==
    IF order = <<>> THEN Resolved(Record(resolved))
    ELSE LET key == Head(order)
             strategy == IF key \in DOMAIN field_strategies
                         THEN field_strategies[key] ELSE default_strategy
             lf == c.local.f
             rf == c.remote.f
             r == IF key \in DOMAIN lf /\ key \in DOMAIN rf
                  THEN ResolveField(lf[key], rf[key], c.local_metadata,
                                    c.remote_metadata, strategy)
                  ELSE IF key \in DOMAIN lf THEN ResolvedField(lf[key])
                  ELSE ResolvedField(rf[key])
         IN IF ~r.ok THEN Refused(r.err)
            ELSE FieldLevelFrom(c, default_strategy, field_strategies, Tail(order),
                                [j \in DOMAIN resolved \cup {key} |->
                                    IF j = key THEN r.value ELSE resolved[j]])

\* The orders in which a HashSet holding the keys S can be iterated.
Orders(S) ==
    {q \in [1..Cardinality(S) -> S] : \A i, j \in DOMAIN q : i # j => q[i] # q[j]}

\* FieldLevelConflictResolver::resolve; `order` is the iteration order of the
\* HashSet all_keys.
FieldLevelResolve(c, default_strategy, field_strategies, order) ==
    IF ~c.local.obj THEN Refused(ErrLocalNotObject)
    ELSE IF ~c.remote.obj THEN Refused(ErrRemoteNotObject)
    ELSE FieldLevelFrom(c, default_strategy, field_strategies, order, NoFields)

\* The Merge arm of SqliteLocalDataStore::resolve_conflicts: the local value
\* with every non-null remote field written over it. Indexing a value that
\* is neither an object nor null by a key panics.
ErrPanic == "panic: cannot access key in JSON"
StoreMerge(c) ==
    LET written == IF c.remote.obj
                   THEN {k \in DOMAIN c.remote.f : c.remote.f[k].t # "null"}
                   ELSE {}
    IN IF written = {} THEN Resolved(c.local)
       ELSE IF ~c.local.obj THEN Refused(ErrPanic)
       ELSE Resolved(Record([k \in DOMAIN c.local.f \cup written |->
                                IF k \in written THEN c.remote.f[k]
                                ELSE c.local.f[k]]))

\* One iteration of SqliteLocalDataStore::resolve_conflicts.
StoreResolveOne(c, strategy) ==
    CASE strategy = "LocalWins" -> Resolved(c.local)
      [] strategy = "RemoteWins" -> Resolved(c.remote)
      [] strategy = "NewestWins" ->
            IF c.local_metadata.updated_at > c.remote_metadata.updated_at
            THEN Resolved(c.local) ELSE Resolved(c.remote)
      [] strategy = "Merge" -> StoreMerge(c)
      [] OTHER -> Refused(ErrManualStore)

\* SqliteLocalDataStore::resolve_conflicts: the conflicts in order, the first
\* refusal returned at once; the result carries the list of resolved values.
RECURSIVE ResolveConflictsFrom(_, _, _)
ResolveConflictsFrom(conflicts, strategy, resolved) ==
    IF conflicts = <<>> THEN [ok |-> TRUE, values |-> resolved, err |-> ""]
    ELSE LET r == StoreResolveOne(Head(conflicts), strategy)
         IN IF ~r.ok THEN [ok |-> FALSE, values |-> <<>>, err |-> r.err]
            ELSE ResolveConflictsFrom(Tail(conflicts), strategy,
                                      Append(resolved, r.value))

ResolveConflicts(conflicts, strategy) ==
    ResolveConflictsFrom(conflicts, strategy, <<>>)

\* ------------------------------------------- the resolvers, called directly
\* Keys of the records of a conflict and the values a field takes.
Keys == {"a", "b"}
FieldValues(k) ==
    IF k = "a"
    THEN {JNull, JStr("x"), JStr("y"), JArr(<<"x", "y">>), JArr(<<"y", "z">>),
          JObj([j \in {"j"} |-> "x"]),
          JObj([j \in {"j", "k"} |-> IF j = "j" THEN "y" ELSE "x"])}
    ELSE {JNull, JStr("x")}

\* The payloads of one side: every object over a subset of Keys, and a value
\* that is not an object.
Payloads ==
    {Plain("x")}
    \cup {Record(NoFields)}
    \cup {Record([k \in {"a"} |-> v]) : v \in FieldValues("a")}
    \cup {Record([k \in {"b"} |-> v]) : v \in FieldValues("b")}
    \cup {Record([k \in Keys |-> IF k = "a" THEN v ELSE w]) :
            v \in FieldValues("a"), w \in FieldValues("b")}

Conflicts ==
    {Conflict(l, r, Metadata("b1", t1, Null, DefaultVersion),
              Metadata("b1", t2, Null, DefaultVersion)) :
        l \in Payloads, r \in Payloads, t1 \in Time, t2 \in Time}

\* The field_strategies maps of the FieldLevelConflictResolver instances.
NoFieldStrategies == [k \in {} |-> ""]
FieldStrategyMaps ==
    {NoFieldStrategies,
     [k \in {"a"} |-> "LocalWins"],
     [k \in Keys |-> IF k = "a" THEN "Manual" ELSE "Merge"]}

\* A conflict and a strategy are given; no resolver has been called yet.
ResolverInit ==
    /\ status = InitialStatus
    /\ strategies = {}
    /\ CallersIdle
    /\ now = 1
    /\ DataIdle
    /\ \E c \in Conflicts, strategy \in Strategies :
          rcall = [pc |-> "ready", conflict |-> c, strategy |-> strategy,
                   resolver |-> "", field_strategies |-> NoFieldStrategies,
                   order |-> <<>>, result |-> Refused(""), resolved |-> <<>>]
    /\ bg = NoBackgroundTask
    /\ sp = NoStrategyPass
    /\ LateIdle

\* DefaultConflictResolver.resolve(&conflict, strategy).
CallDefaultResolve ==
    /\ rcall.pc = "ready"
    /\ rcall' = [rcall EXCEPT !.pc = "done", !.resolver = "Default",
                              !.result = DefaultResolve(rcall.conflict, rcall.strategy)]
    /\ UNCHANGED <<engineVars, now, dataVars, bg, sp, ec, builder, svc>>

\* TimestampConflictResolver.resolve(&conflict, strategy).
CallTimestampResolve ==
    /\ rcall.pc = "ready"
    /\ rcall' = [rcall EXCEPT !.pc = "done", !.resolver = "Timestamp",
                              !.result = TimestampResolve(rcall.conflict, rcall.strategy)]
    /\ UNCHANGED <<engineVars, now, dataVars, bg, sp, ec, builder, svc>>

\* FieldLevelConflictResolver{field_strategies}.resolve(&conflict, strategy);
\* the HashSet of the keys is iterated in `order`.
CallFieldLevelResolve(field_strategies, order) ==
    /\ rcall.pc = "ready"
    /\ order \in Orders(DOMAIN rcall.conflict.local.f
                        \cup DOMAIN rcall.conflict.remote.f)
    /\ rcall' = [rcall EXCEPT !.pc = "done", !.resolver = "FieldLevel",
                              !.field_strategies = field_strategies,
                              !.order = order,
                              !.result = FieldLevelResolve(rcall.conflict,
                                             rcall.strategy, field_strategies, order)]
    /\ UNCHANGED <<engineVars, now, dataVars, bg, sp, ec, builder, svc>>

\* SqliteLocalDataStore.resolve_conflicts(&[conflict], strategy).
CallResolveConflicts ==
    /\ rcall.pc = "ready"
    /\ LET r == ResolveConflicts(<<rcall.conflict>>, rcall.strategy)
       IN rcall' = [rcall EXCEPT !.pc = "done", !.resolver = "Store",
                                 !.result = [ok |-> r.ok, value |-> Plain(""),
                                             err |-> r.err],
                                 !.resolved = r.values]
    /\ UNCHANGED <<engineVars, now, dataVars, bg, sp, ec, builder, svc>>

ResolverNext ==
    \/ CallDefaultResolve
    \/ CallTimestampResolve
    \/ \E field_strategies \in FieldStrategyMaps,
          order \in UNION {Orders(S) : S \in SUBSET Keys} :
          CallFieldLevelResolve(field_strategies, order)
    \/ CallResolveConflicts

SpecResolver == ResolverInit /\ [][ResolverNext]_vars

\* ------------------------------------------------ claims on the resolvers
\* A resolver call has returned.
Returned(resolver, strategy) ==
    /\ rcall.pc = "done"
    /\ rcall.resolver = resolver
    /\ rcall.strategy = strategy

\* The record NewestWins selects: local when its updated_at is strictly
\* later, remote otherwise.
Newest(c) ==
    IF c.local_metadata.updated_at > c.remote_metadata.updated_at
    THEN c.local ELSE c.remote

\* C11: under NewestWins, DefaultConflictResolver.resolve and
\* resolve_conflicts return the local record when T1 > T2 and the remote
\* record otherwise, equal timestamps included.
C11_NewestWins ==
    /\ Returned("Default", "NewestWins")
          => rcall.result = Resolved(Newest(rcall.conflict))
    /\ Returned("Store", "NewestWins")
          => rcall.result.ok /\ rcall.resolved = <<Newest(rcall.conflict)>>

C11_Witness ==
    /\ Returned("Default", "NewestWins")
    /\ rcall.conflict.local_metadata.updated_at
          = rcall.conflict.remote_metadata.updated_at
    /\ rcall.conflict.local # rcall.conflict.remote
    /\ rcall.result = Resolved(rcall.conflict.remote)

\* C12: DefaultConflictResolver.resolve returns the local record under
\* LocalWins and the remote record under RemoteWins, whatever the timestamps
\* and the payloads are.
C12_ConstantSelection ==
    /\ Returned("Default", "LocalWins")
          => rcall.result = Resolved(rcall.conflict.local)
    /\ Returned("Default", "RemoteWins")
          => rcall.result = Resolved(rcall.conflict.remote)

C12_Witness ==
    /\ Returned("Default", "LocalWins")
    /\ rcall.conflict.local_metadata.updated_at
          < rcall.conflict.remote_metadata.updated_at
    /\ ~rcall.conflict.local.obj
    /\ rcall.conflict.remote.obj
    /\ rcall.result = Resolved(rcall.conflict.local)

\* C13: under Manual every resolver entry point returns a Conflict error
\* (FieldLevel when a field is present on both sides) and never a record.
C13_ManualRefuses ==
    (/\ rcall.pc = "done"
     /\ rcall.strategy = "Manual"
     /\ rcall.resolver = "FieldLevel"
           => /\ rcall.field_strategies = NoFieldStrategies
              /\ rcall.conflict.local.obj /\ rcall.conflict.remote.obj
              /\ DOMAIN rcall.conflict.local.f \cap DOMAIN rcall.conflict.remote.f # {})
    => /\ ~rcall.result.ok
       /\ rcall.result.err \in {ErrManual, ErrManualStore}
       /\ rcall.resolved = <<>>

\* C14: for two objects with disjoint key sets, DefaultConflictResolver.resolve
\* with Merge returns the object over the union of the keys in which every
\* key has the value of the side that has it.
C14_MergeDisjoint ==
    LET l == rcall.conflict.local
        r == rcall.conflict.remote
    IN (/\ Returned("Default", "Merge")
        /\ l.obj /\ r.obj
        /\ DOMAIN l.f \cap DOMAIN r.f = {})
       => /\ rcall.result.ok
          /\ rcall.result.value.obj
          /\ DOMAIN rcall.result.value.f = DOMAIN l.f \cup DOMAIN r.f
          /\ \A k \in DOMAIN l.f : rcall.result.value.f[k] = l.f[k]
          /\ \A k \in DOMAIN r.f : rcall.result.value.f[k] = r.f[k]

C14_Witness ==
    /\ Returned("Default", "Merge")
    /\ DOMAIN rcall.conflict.local.f = {"a"}
    /\ DOMAIN rcall.conflict.remote.f = {"b"}
    /\ rcall.conflict.remote.f["b"] = JNull
    /\ DOMAIN rcall.result.value.f = Keys

\* C15: what a resolver returns is determined by the conflict, the strategy
\* and the resolver: a second call on the same input, in whatever order the
\* key set is iterated, returns what the first call returned.
C15_Deterministic ==
    rcall.pc = "done" =>
        LET c == rcall.conflict
        IN CASE rcall.resolver = "Default" ->
                   DefaultResolve(c, rcall.strategy) = rcall.result
             [] rcall.resolver = "Timestamp" ->
                   TimestampResolve(c, rcall.strategy) = rcall.result
             [] rcall.resolver = "Store" ->
                   ResolveConflicts(<<c>>, rcall.strategy).values = rcall.resolved
             [] OTHER ->
                   \A order \in Orders(DOMAIN c.local.f \cup DOMAIN c.remote.f) :
                       FieldLevelResolve(c, rcall.strategy, rcall.field_strategies,
                                         order) = rcall.result

\* ------------------------------------------------- the background sync task
\* The caller through which the background task uses its clone of the engine.
BgCaller == "c2"
\* The callers of the command layer that run beside the task.
Commands == Callers \ {BgCaller}

BackgroundInit ==
    /\ status = InitialStatus
    /\ strategies \in SUBSET Tables
    /\ CallersIdle
    /\ now = 1
    /\ DataIdle
    /\ rcall = NoResolverCall
    /\ bg = NoBackgroundTask
    /\ sp = NoStrategyPass
    /\ LateIdle

\* start_background_sync: the task is spawned and waits for a tick.
StartBackgroundSync ==
    /\ bg.pc = "off"
    /\ bg' = [bg EXCEPT !.pc = "wait"]
    /\ UNCHANGED <<engineVars, now, dataVars, rcall, sp, ec, builder, svc>>

\* interval.tick().await completes.
BgTick ==
    /\ bg.pc = "wait"
    /\ bg' = [bg EXCEPT !.pc = "check"]
    /\ UNCHANGED <<engineVars, now, dataVars, rcall, sp, ec, builder, svc>>

\* The test the task makes on the status it reads.
BgSkips_Never(st) == FALSE
BgSkips(st) == ~st.is_online \/ st.is_syncing

\* status.read(): `continue` when offline or syncing, otherwise the read
\* guard is dropped and sync_all_tables is about to be called.
BgCheck ==
    /\ bg.pc = "check"
    /\ IF BgSkips(status)
       THEN /\ bg' = [bg EXCEPT !.pc = "wait"]
            /\ UNCHANGED result
       ELSE /\ bg' = [bg EXCEPT !.pc = "call"]
            /\ result' = [result EXCEPT ![BgCaller] = NoResult]
    /\ UNCHANGED <<status, strategies, pc, cur, ret, todo, summaries, inner,
                   runs, queued, now, dataVars, rcall, sp, ec, builder, svc>>

\* engine.sync_all_tables() is entered by the task.
BgSyncAllTables ==
    /\ bg.pc = "call"
    /\ result[BgCaller] = NoResult
    /\ SyncAllTables(BgCaller)

\* What the loop does with an error of sync_all_tables: log it and go on.
BgAfterError_Ends == "ended"
BgAfterError == "wait"

\* engine.sync_all_tables() has returned: an error is logged, the loop goes
\* on to the next tick.
BgReturn ==
    /\ bg.pc = "call"
    /\ pc[BgCaller] = "idle"
    /\ result[BgCaller] # NoResult
    /\ bg' = [pc |-> IF result[BgCaller].ok THEN "wait" ELSE BgAfterError,
              last |-> result[BgCaller]]
    /\ UNCHANGED <<engineVars, now, dataVars, rcall, sp, ec, builder, svc>>

BackgroundNext ==
    \/ StartBackgroundSync
    \/ BgTick
    \/ BgCheck
    \/ BgSyncAllTables
    \/ BgReturn
    \/ \E b \in BOOLEAN : CheckConnectivity(b)
    \/ \E c \in Commands, t \in Tables : SyncTable(c, t)
    \/ \E c \in Commands : SyncAllTables(c)
    \/ \E c \in Callers, b \in BOOLEAN : PerformTableSync(c, b)
    \/ \E c \in Callers, out \in StrategyOutcomes : StrategyReturns(c, out)
    \/ \E c \in Callers : SyncTableExit(c)
    \/ \E c \in Callers, b \in BOOLEAN : PerformAllTablesSync(c, b)
    \/ \E c \in Callers, t \in Tables : AllTablesLoop(c, t)
    \/ \E c \in Callers : AllTablesLoopEnd(c)
    \/ \E c \in Callers : SyncAllTablesExit(c)

SpecBackground == BackgroundInit /\ [][BackgroundNext]_vars

\* The interval fires again and again: every tick the task waits for comes.
SpecBackgroundFair == SpecBackground /\ WF_vars(BgTick)

\* The task settles what to do with the tick it was woken by.
BgDecides == bg.pc = "check" /\ bg'.pc # "check"

\* The task's engine is past a call of remote.check_connectivity: the only
\* probes the task makes are those of perform_all_tables_sync and of
\* perform_table_sync, inside the call of sync_all_tables.
BgProbedThisTick == pc[BgCaller] \notin {"idle", "sa_perform"}

\* C16: on every tick the background task invokes the remote probe before
\* it decides whether to run sync_all_tables.
C16_ProbeBeforeDecision == [][BgDecides => BgProbedThisTick]_vars

\* C17: the background task goes on to call sync_all_tables on a tick only
\* if the status it reads at that tick has is_online true and is_syncing
\* false.
C17_CallOnlyOnlineAndIdle ==
    [][(bg.pc = "check" /\ bg'.pc = "call")
          => (status.is_online /\ ~status.is_syncing)]_vars

\* The task has entered sync_all_tables on a tick.
C17_Witness == bg.pc = "call" /\ pc[BgCaller] = "sa_perform"

\* The last call of sync_all_tables the task made returned an error.
BgFailed == bg.pc # "off" /\ ~bg.last.ok

MaxBatchSize == 2
MaxRetry == 1
\* The value at which the model stops counting what a pass adds up.
MaxCount == 2

Min(a, b) == IF a <= b THEN a ELSE b

\* The offsets the model tells apart: a page at an offset beyond the number
\* of records is the page at that number, the empty one.
Offset(n) == Min(n, Cardinality(Ids))

\* fetch_changes(table, since, Some(limit), Some(offset)): the page of at most
\* `limit` records after the first `offset` of the records with
\* updated_at >= since, ordered by updated_at.
FetchPage(rem, since, limit, offset) ==
    LET sel == {i \in Ids : rem[i].present
                            /\ (since = Null \/ rem[i].updated_at >= since)}
        all == Ordered(sel, [i \in Ids |-> rem[i].updated_at])
        q == SubSeq(all, offset + 1, Min(Len(all), offset + limit))
    IN [k \in 1..Len(q) |->
           [data |-> Object(q[k], rem[q[k]].title, rem[q[k]].updated_at),
            metadata |-> Metadata(q[k], rem[q[k]].updated_at, Null, DefaultVersion)]]

\* How a remote pages: "paged" honours the offset, "stuck" answers every
\* offset with its first page.
Paginators == {"paged", "stuck"}

\* The page as the operations the pass applies locally.
AsCreates(fetched) ==
    [k \in 1..Len(fetched) |-> Create(fetched[k].data, fetched[k].metadata)]

\* The local databases an Incremental pass starts from: every record is
\* absent or present with the metadata of an earlier Create.
PulledStore ==
    \E present \in SUBSET Ids :
       /\ rows = [k \in RowKeys |-> IF k \in present THEN LocalRow ELSE NoRow]
       /\ meta = [k \in MetaKeys |-> IF k \in present THEN SyncedMeta ELSE NoMeta]

IncrementalInit ==
    /\ status = InitialStatus
    /\ strategies = {}
    /\ CallersIdle
    /\ now = 1
    /\ PulledStore
    /\ lastCall = NoCall
    /\ remote = [i \in Ids |-> NoRemoteRow]
    /\ tw = IdlePass
    /\ rcall = NoResolverCall
    /\ bg = NoBackgroundTask
    /\ LateIdle
    /\ \E batch_size \in 1..MaxBatchSize, retry_count \in 0..MaxRetry :
          sp = [NoStrategyPass EXCEPT !.batch_size = batch_size,
                                      !.retry_count = retry_count]

\* total_summary is built and get_last_sync_time is called.
IncStart ==
    /\ sp.pc = "idle"
    /\ sp' = [sp EXCEPT !.pc = "fetch", !.last_sync = GetLastSyncTime(meta),
                        !.calls = {"get_last_sync_time"}]
    /\ UNCHANGED <<engineVars, now, dataVars, rcall, bg, ec, builder, svc>>

\* Whether the loop stops fetching pages for a reason other than an empty page
\* or an error.
IterationCapReached(pass) == FALSE

\* remote.fetch_changes(table, last_sync, Some(batch_size), Some(offset)):
\* an empty page ends the loop.
IncFetch(ok, paginator) ==
    /\ sp.pc = "fetch"
    /\ LET at == IF paginator = "stuck" THEN 0 ELSE sp.offset
           page == FetchPage(remote, sp.last_sync, sp.batch_size, at)
           called == [sp EXCEPT !.calls = @ \cup {"fetch_changes"}]
       IN sp' = IF ~ok
                THEN [called EXCEPT !.pc = "failed", !.err = "fetch_changes"]
                ELSE IF page = <<>> THEN [called EXCEPT !.pc = "done"]
                ELSE [called EXCEPT !.pc = "apply", !.retry = 0,
                                    !.changes = AsCreates(page)]
    /\ UNCHANGED <<engineVars, now, dataVars, rcall, bg, ec, builder, svc>>

\* The end of one turn of the outer loop.
NextPage(pass) ==
    [pass EXCEPT !.pc = IF IterationCapReached(pass) THEN "done" ELSE "fetch",
                 !.offset = Offset(@ + pass.batch_size),
                 !.changes = <<>>]

\* The guard of the retry arm, letting one attempt too many through.
MayRetry_OnceMore(pass) == pass.retry <= pass.retry_count
\* The guard of the retry arm: Err(_e) if retry_count < self.retry_count.
MayRetry(pass) == pass.retry < pass.retry_count

\* One turn of the retry loop: local.apply_changes of the page; an error is
\* retried while retry_count < self.retry_count and recorded otherwise.
IncApply(failAt) ==
    /\ sp.pc = "apply"
    /\ failAt <= 2 * Len(sp.changes)
    /\ LET r == ApplyChanges(rows, meta, sp.changes, failAt)
           called == [sp EXCEPT !.calls = @ \cup {"apply_changes"}]
       IN /\ rows' = r.rows
          /\ meta' = r.meta
          /\ sp' = IF r.ok
                   THEN NextPage([called EXCEPT !.remote_changes =
                                     Min(@ + Len(sp.changes), MaxCount)])
                   ELSE IF MayRetry(sp)
                   THEN [called EXCEPT !.retry = @ + 1]
                   ELSE NextPage([called EXCEPT !.errors = Min(@ + 1, MaxCount)])
    /\ UNCHANGED <<engineVars, now, lastCall, remote, tw, rcall, bg, ec, builder, svc>>

\* sync_table returns; the strategy can be called again.
PassReturn ==
    /\ sp.pc \in {"done", "failed"}
    /\ sp' = [NoStrategyPass EXCEPT !.direction = sp.direction,
                                    !.batch_size = sp.batch_size,
                                    !.retry_count = sp.retry_count]
    /\ UNCHANGED <<engineVars, now, dataVars, rcall, bg, ec, builder, svc>>

\* A step of the pass.
IncStep ==
    \/ IncStart
    \/ \E ok \in BOOLEAN, paginator \in Paginators : IncFetch(ok, paginator)
    \/ \E failAt \in 0..(2 * MaxBatchSize) : IncApply(failAt)
    \/ PassReturn

IncrementalNext ==
    \/ \E i \in Ids, title \in Titles : RemoteWrite(i, title)
    \/ IncStart
    \/ \E ok \in BOOLEAN, paginator \in Paginators : IncFetch(ok, paginator)
    \/ \E failAt \in 0..(2 * MaxBatchSize) : IncApply(failAt)
    \/ PassReturn

SpecIncremental == IncrementalInit /\ [][IncrementalNext]_vars
\* The task running the pass is scheduled as long as it has a step to take.
SpecIncrementalFair == SpecIncremental /\ WF_vars(IncStep)

\* C19: a pass of the Incremental strategy terminates whatever the remote
\* paginator answers: every pass that started fetching pages returns.
C19_PassTerminates == (sp.pc = "fetch") ~> (sp.pc \in {"done", "failed"})

\* ------------------------------------------------------ OneWaySyncStrategy
Directions == {"LocalToRemote", "RemoteToLocal"}

OneWayInit ==
    /\ status = InitialStatus
    /\ strategies = {}
    /\ CallersIdle
    /\ now = 1
    /\ SyncedStore
    /\ lastCall = NoCall
    /\ remote = [i \in Ids |-> NoRemoteRow]
    /\ tw = IdlePass
    /\ rcall = NoResolverCall
    /\ bg = NoBackgroundTask
    /\ LateIdle
    /\ \E direction \in Directions :
          sp = [NoStrategyPass EXCEPT !.direction = direction]

\* match self.direction: the first call of the arm taken.
OneWayArm_Pull(direction) == "fetch"
OneWayArm(direction) == IF direction = "LocalToRemote" THEN "get" ELSE "fetch"

\* get_last_sync_time and the match on the direction.
OwStart ==
    /\ sp.pc = "idle"
    /\ sp' = [sp EXCEPT !.pc = OneWayArm(sp.direction),
                        !.last_sync = GetLastSyncTime(meta),
                        !.calls = {"get_last_sync_time"}]
    /\ UNCHANGED <<engineVars, now, dataVars, rcall, bg, ec, builder, svc>>

\* LocalToRemote: local.get_changes(table, last_sync).
OwGetChanges ==
    /\ sp.pc = "get"
    /\ LET got == GetChanges(rows, meta, sp.last_sync, now)
           called == [sp EXCEPT !.calls = @ \cup {"get_changes"}]
       IN sp' = IF ~got.ok
                THEN [called EXCEPT !.pc = "failed", !.err = "get_changes"]
                ELSE [called EXCEPT !.changes = got.changes,
                                    !.local_changes = Len(got.changes),
                                    !.pc = IF got.changes # <<>> THEN "push"
                                           ELSE "done"]
    /\ UNCHANGED <<engineVars, now, dataVars, rcall, bg, ec, builder, svc>>

\* LocalToRemote: remote.push_changes(table, &local_changes).
OwPush(answers) ==
    /\ sp.pc = "push"
    /\ Len(answers) = Len(sp.changes)
    /\ LET p == PushChanges(remote, sp.changes, answers)
           called == [sp EXCEPT !.calls = @ \cup {"push_changes"}]
       IN /\ remote' = p.remote
          /\ sp' = IF p.ok THEN [called EXCEPT !.pc = "done"]
                   ELSE [called EXCEPT !.pc = "failed", !.err = "push_changes"]
    /\ UNCHANGED <<engineVars, now, rows, meta, lastCall, tw, rcall, bg, ec, builder, svc>>

\* RemoteToLocal: remote.fetch_changes(table, last_sync, None, None); ok is
\* whether the request succeeds.
OwFetch(ok) ==
    /\ sp.pc = "fetch"
    /\ LET fetched == FetchChanges(remote, sp.last_sync)
           called == [sp EXCEPT !.calls = @ \cup {"fetch_changes"}]
       IN sp' = IF ~ok
                THEN [called EXCEPT !.pc = "failed", !.err = "fetch_changes"]
                ELSE [called EXCEPT !.changes = AsUpdates(fetched),
                                    !.remote_changes = Len(fetched),
                                    !.pc = IF fetched # <<>> THEN "apply"
                                           ELSE "done"]
    /\ UNCHANGED <<engineVars, now, dataVars, rcall, bg, ec, builder, svc>>

\* RemoteToLocal: local.apply_changes of the remote deltas as Update
\* operations.
OwApply(failAt) ==
    /\ sp.pc = "apply"
    /\ failAt <= 2 * Len(sp.changes)
    /\ LET r == ApplyChanges(rows, meta, sp.changes, failAt)
           called == [sp EXCEPT !.calls = @ \cup {"apply_changes"}]
       IN /\ rows' = r.rows
          /\ meta' = r.meta
          /\ sp' = IF r.ok THEN [called EXCEPT !.pc = "done"]
                   ELSE [called EXCEPT !.pc = "failed", !.err = "apply_changes"]
    /\ UNCHANGED <<engineVars, now, lastCall, remote, tw, rcall, bg, ec, builder, svc>>

OneWayNext ==
    \/ \E i \in Ids, title \in Titles : RemoteWrite(i, title)
    \/ OwStart
    \/ OwGetChanges
    \/ \E answers \in UNION {[1..n -> Answers] : n \in 1..Cardinality(Ids)} :
          OwPush(answers)
    \/ \E ok \in BOOLEAN : OwFetch(ok)
    \/ \E failAt \in 0..(2 * Cardinality(Ids)) : OwApply(failAt)
    \/ PassReturn

SpecOneWay == OneWayInit /\ [][OneWayNext]_vars

\* C20: a One-Way pass uses one direction only: with LocalToRemote it never
\* calls fetch_changes or apply_changes, with RemoteToLocal it never calls
\* get_changes or push_changes.
C20_OneDirectionOnly ==
    /\ sp.direction = "LocalToRemote"
          => sp.calls \cap {"fetch_changes", "apply_changes"} = {}
    /\ sp.direction = "RemoteToLocal"
          => sp.calls \cap {"get_changes", "push_changes"} = {}

\* A LocalToRemote pass has pushed its local changes and is done.
C20_Witness ==
    /\ sp.direction = "LocalToRemote"
    /\ sp.pc = "done"
    /\ "push_changes" \in sp.calls

\* --------------------------- engine operations and the SyncStatus lock
\* What the HEAD request of SupabaseRemoteDataSource::check_connectivity can
\* meet: a success status, another status, or a failure of the request.
ProbeAnswers == {"2xx", "non2xx", "error"}

\* SupabaseRemoteDataSource::check_connectivity.
ProbeReports(answer) == answer = "2xx"

\* The write check_connectivity makes on the status, clearing last_error too.
WithOnline_ClearsError(st, b) == [st EXCEPT !.is_online = b, !.last_error = NoError]
\* The write check_connectivity makes on the status.
WithOnline(st, b) == [st EXCEPT !.is_online = b]

ErrPull == "pull failed"
ErrPullInvalid == "Invalid data: pull failed"

LockInit ==
    /\ status = InitialStatus
    /\ strategies = Tables
    /\ CallersIdle
    /\ now = 1
    /\ DataIdle
    /\ rcall = NoResolverCall
    /\ bg = NoBackgroundTask
    /\ sp = NoStrategyPass
    /\ ec = NoEngineCalls
    /\ builder = NewBuilder
    /\ svc = NoService

\* The variables an engine operation of this section leaves alone.
lockFrame == <<strategies, pc, cur, ret, todo, summaries, inner, result, runs,
               queued, now, dataVars, rcall, bg, sp, builder, svc>>

\* Caller c starts operation `op` and is at `at`.
Begun(c, op, at) == [ec EXCEPT !.op[c] = op, !.at[c] = at]

\* check_connectivity is called: the remote probe is awaited.
EcCheckConnectivity(c) ==
    /\ ec.at[c] = "idle"
    /\ ec' = Begun(c, "check_connectivity", "probe")
    /\ UNCHANGED <<status, lockFrame>>

\* initialize: the write lock is taken, then check_connectivity is called.
EcInitialize(c) ==
    /\ ec.at[c] = "idle"
    /\ ec.lock = "free"
    /\ ec' = [Begun(c, "initialize", "probe") EXCEPT !.lock = c]
    /\ UNCHANGED <<status, lockFrame>>

\* sync_table up to drop(status): the check-and-set under the write lock,
\* then perform_table_sync calls check_connectivity.
EcSyncTable(c) ==
    /\ ec.at[c] = "idle"
    /\ ec.lock = "free"
    /\ IF SyncInProgressGuard(status)
       THEN /\ ec' = [Begun(c, "sync_table", "returned") EXCEPT
                         !.result[c] = Err(ErrSyncInProgress)]
            /\ status' = Rejected(status)
       ELSE /\ ec' = Begun(c, "sync_table", "probe")
            /\ status' = CheckAndSet(status)
    /\ UNCHANGED lockFrame

\* trigger_data_pull up to drop(status): is_syncing is set, then the tables
\* are fetched.
EcTriggerDataPull(c) ==
    /\ ec.at[c] = "idle"
    /\ ec.lock = "free"
    /\ ec' = Begun(c, "trigger_data_pull", "pull")
    /\ status' = [status EXCEPT !.is_syncing = TRUE]
    /\ UNCHANGED lockFrame

\* self.remote.check_connectivity() answers.
EcProbed(c, answer) ==
    /\ ec.at[c] = "probe"
    /\ ec' = [ec EXCEPT !.at[c] = "write", !.answer[c] = answer,
                        !.is_online[c] = ProbeReports(answer)]
    /\ UNCHANGED <<status, lockFrame>>

\* The rest of check_connectivity: self.status.write() is granted, is_online
\* is written and returned. The caller goes on: check_connectivity returns
\* to the command layer, perform_table_sync returns offline or calls the
\* strategy, initialize writes its three fields and returns.
EcWrite(c) ==
    /\ ec.at[c] = "write"
    /\ ec.lock = "free"
    /\ LET b == ec.is_online[c]
           st == WithOnline(status, b)
       IN CASE ec.op[c] = "check_connectivity" ->
                 /\ status' = st
                 /\ ec' = [ec EXCEPT !.at[c] = "returned"]
            [] ec.op[c] = "sync_table" ->
                 /\ status' = st
                 /\ ec' = IF b THEN [ec EXCEPT !.at[c] = "strategy"]
                          ELSE [ec EXCEPT !.at[c] = "exit",
                                          !.inner[c] = Err(ErrOffline)]
            [] OTHER ->
                 /\ status' = [st EXCEPT !.database_initialized = TRUE,
                                         !.initial_sync_completed = TRUE]
                 /\ ec' = [ec EXCEPT !.at[c] = "returned", !.lock = "free",
                                     !.result[c] = Ok(<<>>)]
    /\ UNCHANGED lockFrame

\* The strategy's sync_table, with its remote requests, returns.
EcStrategy(c, out) ==
    /\ ec.at[c] = "strategy"
    /\ ec' = [ec EXCEPT !.at[c] = "exit", !.inner[c] = out]
    /\ UNCHANGED <<status, lockFrame>>

\* The fetches of trigger_data_pull return.
EcPulled(c, ok) ==
    /\ ec.at[c] = "pull"
    /\ ec' = [ec EXCEPT !.at[c] = "exit",
                        !.inner[c] = IF ok THEN Ok(<<>>) ELSE Err(ErrPull)]
    /\ UNCHANGED <<status, lockFrame>>

\* The status update trigger_data_pull ends with.
StatusAfterPull(st, res) ==
    IF res.ok
    THEN [st EXCEPT !.is_syncing = FALSE, !.initial_sync_completed = TRUE,
                    !.last_sync = now, !.last_error = NoError]
    ELSE [st EXCEPT !.is_syncing = FALSE, !.last_error = res.errors]

\* The second write of sync_table and of trigger_data_pull, and the return.
EcExit(c) ==
    /\ ec.at[c] = "exit"
    /\ ec.lock = "free"
    /\ IF ec.op[c] = "sync_table"
       THEN /\ status' = StatusAfter(status, ec.inner[c])
            /\ ec' = [ec EXCEPT !.at[c] = "returned", !.result[c] = ec.inner[c]]
       ELSE /\ status' = StatusAfterPull(status, ec.inner[c])
            /\ ec' = [ec EXCEPT !.at[c] = "returned",
                                !.result[c] = IF ec.inner[c].ok THEN Ok(<<>>)
                                              ELSE Err(ErrPullInvalid)]
    /\ UNCHANGED lockFrame

\* shutdown: is_syncing is cleared under the write lock and Ok returned.
EcShutdown(c) ==
    /\ ec.at[c] = "idle"
    /\ ec.lock = "free"
    /\ status' = [status EXCEPT !.is_syncing = FALSE]
    /\ UNCHANGED <<ec, lockFrame>>

\* The caller takes the value returned; it can call again.
EcReturn(c) ==
    /\ ec.at[c] = "returned"
    /\ ec' = [ec EXCEPT !.op[c] = "", !.at[c] = "idle", !.answer[c] = "",
                        !.is_online[c] = FALSE, !.inner[c] = NoResult,
                        !.result[c] = NoResult]
    /\ UNCHANGED <<status, lockFrame>>

LockNext ==
    \/ \E c \in Callers : EcCheckConnectivity(c)
    \/ \E c \in Callers : EcInitialize(c)
    \/ \E c \in Callers : EcSyncTable(c)
    \/ \E c \in Callers : EcTriggerDataPull(c)
    \/ \E c \in Callers, answer \in ProbeAnswers : EcProbed(c, answer)
    \/ \E c \in Callers : EcWrite(c)
    \/ \E c \in Callers, out \in StrategyOutcomes : EcStrategy(c, out)
    \/ \E c \in Callers, ok \in BOOLEAN : EcPulled(c, ok)
    \/ \E c \in Callers : EcExit(c)
    \/ \E c \in Callers : EcReturn(c)
    \/ \E c \in Callers : EcShutdown(c)

SpecLock == LockInit /\ [][LockNext]_vars

\* Caller c's check_connectivity returns in this step.
CcReturns(c) ==
    /\ ec.op[c] = "check_connectivity"
    /\ ec.at[c] = "write"
    /\ ec'.at[c] = "returned"

\* C21: check_connectivity returns the boolean the remote probe reported,
\* writes that boolean to status.is_online and leaves every other field of
\* the status as it was; the probe reports false for a request that failed
\* and for a status that is not a success.
C21_ConnectivityFrame ==
    [][\A c \in Callers :
          CcReturns(c) =>
             /\ ec'.is_online[c] = (ec.answer[c] = "2xx")
             /\ status'.is_online = ec'.is_online[c]
             /\ status' = [status EXCEPT !.is_online = ec'.is_online[c]]]_vars

\* check_connectivity has returned false after a request that failed, while
\* a sync was in progress and an error was recorded.
C21_Witness ==
    \E c \in Callers :
       /\ ec.op[c] = "check_connectivity"
       /\ ec.at[c] = "returned"
       /\ ec.answer[c] = "error"
       /\ ~ec.is_online[c]
       /\ status.is_syncing
       /\ status.last_sync # Null

\* Caller c's sync_table or trigger_data_pull returns an error in this step.
FailsNow(c) ==
    /\ ec.at[c] # "returned"
    /\ ec'.at[c] = "returned"
    /\ ec'.op[c] \in {"sync_table", "trigger_data_pull"}
    /\ ~ec'.result[c].ok

\* The string of the failure a call returns with: the error of sync_table,
\* the error trigger_data_pull wraps.
FailureString(c) ==
    IF ec'.op[c] = "sync_table" THEN ec'.result[c].errors ELSE ec'.inner[c].errors

\* C22: whenever a sync_table or trigger_data_pull call fails, a call rejected
\* with SyncInProgress included, status.last_error holds the error string of
\* that call when it returns.
C22_LastErrorIsLatestFailure ==
    [][\A c \in Callers :
          FailsNow(c) => status'.last_error = FailureString(c)]_vars

\* ------------------------------------------------------ SyncEngineBuilder
\* The strategies with_strategy can register for a table.
StrategyKinds == {"TwoWay", "OneWay", "Incremental"}

ErrRemoteRequired == "Configuration error: Remote data source required"
ErrLocalRequired == "Configuration error: Local data store required"
ErrResolverRequired == "Configuration error: Conflict resolver required"

BuilderInit ==
    /\ status = InitialStatus
    /\ strategies = {}
    /\ CallersIdle
    /\ now = 1
    /\ DataIdle
    /\ rcall = NoResolverCall
    /\ bg = NoBackgroundTask
    /\ sp = NoStrategyPass
    /\ ec = NoEngineCalls
    /\ builder = NewBuilder
    /\ svc = NoService

\* The variables a call on the builder leaves alone.
builderFrame == <<engineVars, now, dataVars, rcall, bg, sp, ec, svc>>

\* with_remote, with_local, with_conflict_resolver, with_strategy.
WithRemote ==
    /\ builder.out = "none"
    /\ builder' = [builder EXCEPT !.remote = TRUE]
    /\ UNCHANGED builderFrame
WithLocal ==
    /\ builder.out = "none"
    /\ builder' = [builder EXCEPT !.local = TRUE]
    /\ UNCHANGED builderFrame
WithConflictResolver ==
    /\ builder.out = "none"
    /\ builder' = [builder EXCEPT !.conflict_resolver = TRUE]
    /\ UNCHANGED builderFrame
WithStrategy(t, kind) ==
    /\ builder.out = "none"
    /\ builder' = [builder EXCEPT !.strategies[t] = kind]
    /\ UNCHANGED builderFrame

\* The dependency whose absence build reports, "" when none is missing.
\* Without the check of the conflict resolver:
MissingDependency_NoResolverCheck(b) ==
    IF ~b.remote THEN ErrRemoteRequired
    ELSE IF ~b.local THEN ErrLocalRequired
    ELSE ""
MissingDependency(b) ==
    IF ~b.remote THEN ErrRemoteRequired
    ELSE IF ~b.local THEN ErrLocalRequired
    ELSE IF ~b.conflict_resolver THEN ErrResolverRequired
    ELSE ""

\* The engine build constructs.
BuiltEngine(b) ==
    [built |-> TRUE, status |-> InitialStatus,
     strategies |-> {t \in Tables : b.strategies[t] # "none"}]

\* build consumes the builder: a Config error, or the engine.
Build ==
    /\ builder.out = "none"
    /\ builder' = IF MissingDependency(builder) # ""
                  THEN [builder EXCEPT !.out = "error",
                                       !.err = MissingDependency(builder)]
                  ELSE [builder EXCEPT !.out = "engine",
                                       !.engine = BuiltEngine(builder)]
    /\ UNCHANGED builderFrame

\* The application starts over with SyncEngineBuilder::new().
New ==
    /\ builder.out # "none"
    /\ builder' = NewBuilder
    /\ UNCHANGED builderFrame

BuilderNext ==
    \/ WithRemote
    \/ WithLocal
    \/ WithConflictResolver
    \/ \E t \in Tables, kind \in StrategyKinds : WithStrategy(t, kind)
    \/ Build
    \/ New

SpecBuilder == BuilderInit /\ [][BuilderNext]_vars

\* Every flag of a SyncStatus is false and every optional field is empty.
Blank(st) ==
    /\ ~st.is_online /\ ~st.is_syncing
    /\ ~st.database_initialized /\ ~st.initial_sync_completed
    /\ st.last_sync = Null /\ st.last_error = NoError

\* C23: build returns a Config error, with no engine and no background task,
\* whenever the remote data source, the local data store or the conflict
\* resolver was not supplied; otherwise it returns an engine whose status
\* has every flag false and every optional field empty.
C23_BuildFailsFast ==
    LET complete == builder.remote /\ builder.local /\ builder.conflict_resolver
    IN /\ builder.out = "error"
            => /\ ~complete
               /\ builder.err \in {ErrRemoteRequired, ErrLocalRequired,
                                   ErrResolverRequired}
               /\ ~builder.engine.built
               /\ bg = NoBackgroundTask
       /\ builder.out = "engine"
            => /\ complete
               /\ builder.engine.built
               /\ Blank(builder.engine.status)
       /\ bg = NoBackgroundTask

\* build has refused a builder that lacks only the conflict resolver.
C23_Witness ==
    /\ builder.out = "error"
    /\ builder.remote /\ builder.local /\ ~builder.conflict_resolver
    /\ builder.err = ErrResolverRequired

\* ------------------------------------- more claims on a Two-Way pass
\* What get_changes returns to a pass that starts on the store as it is.
NextLocalChanges == GetChanges(rows, meta, GetLastSyncTime(meta), now)

\* The ids of the changes in a list of operations.
ChangedIds(changes) == {ChangeId(changes[k]) : k \in 1..Len(changes)}

\* C24: a local change a Two-Way pass classified as conflicting is not lost:
\* when the pass has ended, get_changes of the next pass for that table
\* returns a change for the same record again.
C24_ConflictRetriedNextPass ==
    (tw.pc = "done" /\ tw.conflicts # <<>>)
        => /\ NextLocalChanges.ok
           /\ ChangedIds(tw.conflicts) \subseteq ChangedIds(NextLocalChanges.changes)

\* The ids of the records push_changes acknowledged.
AckedIds == {tw.acked[k].id : k \in 1..Len(tw.acked)}

\* C25: a local operation push_changes did not acknowledge is treated as not
\* yet synced: the pass counts as processed only the remote deltas it applied
\* and the operations acknowledged, and get_changes of the next pass returns
\* a change for every record whose operation was not acknowledged.
C25_UnackedStaysPending ==
    (tw.pc = "done" /\ tw.pushes # <<>>)
        => /\ tw.processed = Len(tw.remote_changes) + Len(tw.acked)
           /\ (ChangedIds(tw.pushes[1]) \ AckedIds)
                 \subseteq ChangedIds(NextLocalChanges.changes)

\* The operations of a list of changes, as (operation, record id) pairs.
Shape(changes) ==
    [k \in 1..Len(changes) |-> <<changes[k].op, ChangeId(changes[k])>>]

\* C26: in a Two-Way pass the local deltas are read only after the remote
\* deltas of the pass have been fetched and applied: when the pass goes on to
\* its local changes, they are the ones get_changes returns (when it returns
\* Ok) on the store as the applied remote deltas left it.
C26_LocalReadAfterRemoteApplied ==
    (tw.pc \in {"probe", "push", "mark"} /\ tw.remote_changes # <<>>)
        => LET read == GetChanges(rows, meta, tw.last_sync, now)
           IN read.ok => Shape(tw.local_changes) = Shape(read.changes)

\* The pass is done with the page it was applying.
PageDone == sp.pc = "apply" /\ sp'.pc # "apply"

\* The page was applied: its records are added to remote_changes, no error
\* is recorded.
PageCounted ==
    /\ sp'.remote_changes = Min(sp.remote_changes + Len(sp.changes), MaxCount)
    /\ sp'.errors = sp.errors

\* Every attempt on the page failed: one error is recorded, remote_changes
\* stays.
PageFailed ==
    /\ sp.retry = sp.retry_count
    /\ sp'.errors = Min(sp.errors + 1, MaxCount)
    /\ sp'.remote_changes = sp.remote_changes

\* C27: in an Incremental pass apply_changes is attempted at most
\* retry_count + 1 times per page; a page is either applied, and its records
\* are added to summary.remote_changes, or fails on every attempt, and one
\* error is added to summary.errors; in both cases the pass goes on to fetch
\* the next page.
C27_PagesIndependent ==
    /\ [](sp.retry <= sp.retry_count)
    /\ [][PageDone => /\ sp'.pc = "fetch"
                      /\ sp'.offset = Offset(sp.offset + sp.batch_size)
                      /\ (PageCounted \/ PageFailed)]_vars
    /\ [][(sp.pc = sp'.pc /\ sp.pc # "apply")
             => (sp'.errors = sp.errors
                 /\ sp'.remote_changes = sp.remote_changes)]_vars

\* One page failed on both attempts, another page was applied, and the pass
\* is about to fetch the next page.
C27_Witness ==
    /\ sp.pc = "fetch"
    /\ sp.retry_count = 1
    /\ sp.retry = 1
    /\ sp.errors = 1
    /\ sp.remote_changes = 1

\* ------------------------------------------ more claims on the resolvers
\* Field k is on both sides of the conflict, with two different strings.
ScalarMismatch(c, k) ==
    /\ c.local.obj /\ c.remote.obj
    /\ k \in DOMAIN c.local.f /\ k \in DOMAIN c.remote.f
    /\ c.local.f[k].t = "str" /\ c.remote.f[k].t = "str"
    /\ c.local.f[k] # c.remote.f[k]

\* C28: under Merge, a field present on both sides with different non-null
\* scalar values takes the value NewestWins selects from the metadata of the
\* two records: the local value when local updated_at is strictly later,
\* the remote value otherwise, equal timestamps included.
C28_MergeScalarNewestWins ==
    \A k \in Keys :
        (Returned("Default", "Merge") /\ ScalarMismatch(rcall.conflict, k))
            => /\ rcall.result.ok
               /\ rcall.result.value.f[k] = Newest(rcall.conflict).f[k]

\* C29: for every conflict and every strategy, resolve_conflicts of the
\* store ends as DefaultConflictResolver.resolve ends on that conflict: both
\* return a record, and the same one, or both return an error.
C29_StoreResolvesAsShared ==
    \A strategy \in Strategies :
        Returned("Store", strategy) =>
            LET shared == DefaultResolve(rcall.conflict, strategy)
            IN /\ rcall.result.ok = shared.ok
               /\ shared.ok => rcall.resolved = <<shared.value>>

\* ------------------------------------------------ the lock and the network
\* Caller c awaits the remote: the connectivity probe, the requests of the
\* strategy or the fetches of trigger_data_pull.
AwaitsNetwork(c) == ec.at[c] \in {"probe", "strategy", "pull"}

\* C30: no engine operation holds the SyncStatus write lock while it awaits
\* the connectivity probe or a remote request: the lock is released before
\* the network call is made.
C30_LockNotHeldAcrossNetwork ==
    \A c \in Callers : AwaitsNetwork(c) => ec.lock # c

\* ------------------------------------------- the summary of a Two-Way pass
\* The SyncSummary sync_table builds when the pass succeeds (table_name,
\* errors and sync_duration_ms left out).
TwoWaySummary(pass) ==
    [remote_changes |-> 0, local_changes |-> pass.processed,
     conflicts |-> Len(pass.conflicts), resolved |-> 0]

\* The number of operations the pass handed to push_changes.
Pushed(pass) ==
    IF pass.pushes = <<>> THEN 0 ELSE Len(pass.pushes[1])

\* C31: the SyncSummary of a Two-Way pass that returns Ok carries in
\* remote_changes the number of remote records applied locally, in
\* local_changes the number of local operations pushed, in conflicts the
\* number of local operations held back, and resolved is not above
\* conflicts.
C31_SummaryCounts ==
    tw.pc = "done" =>
        LET summary == TwoWaySummary(tw)
        IN /\ summary.remote_changes = Len(tw.remote_changes)
           /\ summary.local_changes = Pushed(tw)
           /\ summary.conflicts = Len(tw.conflicts)
           /\ summary.resolved <= summary.conflicts

\* ---------------------------------------------- termination of initialize
\* The runtime keeps polling a task that can go on: a request to the remote
\* is answered (the client has a timeout), and tokio's RwLock is a fair
\* queue, so a writer that waits is granted the lock once it is released.
LockFairness ==
    \A c \in Callers :
       /\ WF_vars(\E answer \in ProbeAnswers : EcProbed(c, answer))
       /\ SF_vars(EcWrite(c))
       /\ WF_vars(\E out \in StrategyOutcomes : EcStrategy(c, out))
       /\ WF_vars(\E ok \in BOOLEAN : EcPulled(c, ok))
       /\ SF_vars(EcExit(c))
       /\ WF_vars(EcReturn(c))

SpecLockFair == SpecLock /\ LockFairness

\* C32: a call of initialize terminates: once it has started it returns,
\* with the three fields of the status written, and does not wait forever
\* for the SyncStatus lock.
C32_InitializeTerminates ==
    \A c \in Callers :
       (ec.op[c] = "initialize" /\ ec.at[c] = "probe")
          ~> (ec.op[c] = "initialize" /\ ec.at[c] = "returned"
              /\ status.database_initialized /\ status.initial_sync_completed)

\* --------------------------------------------------- sync work in flight
\* Caller c's call is inside its unit of sync work: the strategy pass of
\* sync_table or the fetches of trigger_data_pull.
InFlight(c) == ec.at[c] \in {"strategy", "pull"}

\* C33: whatever the interleaving of the engine's operations, is_syncing =
\* false implies that no strategy pass and no data pull is in flight, and no
\* two units of sync work are in flight together.
C33_FlagGuardsSyncWork ==
    /\ ~status.is_syncing => \A c \in Callers : ~InFlight(c)
    /\ \A c, d \in Callers : (InFlight(c) /\ InFlight(d)) => c = d

\* ------------------------------ the engine with data pulls and shutdown
\* trigger_data_pull up to drop(status): is_syncing is set, unconditionally.
TriggerDataPull(c) ==
    /\ pc[c] = "idle"
    /\ status' = [status EXCEPT !.is_syncing = TRUE]
    /\ pc' = [pc EXCEPT ![c] = "dp_fetch"]
    /\ UNCHANGED <<strategies, cur, ret, todo, summaries, inner, result, runs,
                   queued, now, dataVars, otherVars>>

\* The fetches of trigger_data_pull return.
DataPulled(c, ok) ==
    /\ pc[c] = "dp_fetch"
    /\ inner' = [inner EXCEPT ![c] = IF ok THEN Ok(<<>>) ELSE Err(ErrPull)]
    /\ pc' = [pc EXCEPT ![c] = "dp_exit"]
    /\ UNCHANGED <<status, strategies, cur, ret, todo, summaries, result, runs,
                   queued, now, dataVars, otherVars>>

\* The status update trigger_data_pull ends with, and its return.
TriggerDataPullExit(c) ==
    /\ pc[c] = "dp_exit"
    /\ status' = StatusAfterPull(status, inner[c])
    /\ result' = [result EXCEPT ![c] = IF inner[c].ok THEN Ok(<<>>)
                                      ELSE Err(ErrPullInvalid)]
    /\ pc' = [pc EXCEPT ![c] = "idle"]
    /\ inner' = [inner EXCEPT ![c] = NoResult]
    /\ UNCHANGED <<strategies, cur, ret, todo, summaries, runs, queued, now,
                   dataVars, otherVars>>

\* shutdown.
Shutdown ==
    /\ status' = [status EXCEPT !.is_syncing = FALSE]
    /\ UNCHANGED <<strategies, pc, cur, ret, todo, summaries, inner, result,
                   runs, queued, now, dataVars, otherVars>>

\* One table has a strategy registered, the other has none.
PullInit ==
    /\ status = InitialStatus
    /\ strategies = {"books"}
    /\ CallersIdle
    /\ now = 1
    /\ DataIdle
    /\ OthersIdle

PullNext ==
    \/ \E c \in Callers, t \in Tables : SyncTable(c, t)
    \/ \E c \in Callers, b \in BOOLEAN : PerformTableSync(c, b)
    \/ \E c \in Callers, out \in StrategyOutcomes : StrategyReturns(c, out)
    \/ \E c \in Callers : SyncTableExit(c)
    \/ \E c \in Callers : SyncAllTables(c)
    \/ \E c \in Callers, b \in BOOLEAN : PerformAllTablesSync(c, b)
    \/ \E c \in Callers, t \in Tables : AllTablesLoop(c, t)
    \/ \E c \in Callers : AllTablesLoopEnd(c)
    \/ \E c \in Callers : SyncAllTablesExit(c)
    \/ \E c \in Callers : TriggerDataPull(c)
    \/ \E c \in Callers, ok \in BOOLEAN : DataPulled(c, ok)
    \/ \E c \in Callers : TriggerDataPullExit(c)
    \/ Shutdown

SpecPull == PullInit /\ [][PullNext]_vars

\* Caller c's sync_table or sync_all_tables call is rejected in this step:
\* the call returns SyncInProgress to the caller, or the sync_table call
\* made by the loop of perform_all_tables_sync does and leaves a summary
\* that carries the error.
RejectedNow(c) ==
    \/ /\ pc[c] = "idle" /\ pc'[c] = "idle"
       /\ result'[c] # result[c]
       /\ result'[c] = Err(ErrSyncInProgress)
    \/ /\ pc[c] = "sa_loop" /\ pc'[c] = "sa_loop"
       /\ Len(summaries'[c]) = Len(summaries[c]) + 1
       /\ summaries'[c][Len(summaries'[c])].errors = <<ErrSyncInProgress>>

\* C34: a sync_table or sync_all_tables call rejected with SyncInProgress
\* leaves the SyncStatus as it was: is_syncing of the pass in flight stays
\* set, last_sync and last_error keep their values.
C34_RejectedCallLeavesStatus ==
    [][\A c \in Callers : RejectedNow(c) => status' = status]_vars

\* A call has been rejected while work was in flight, a sync had completed
\* and an error was recorded.
C34_Witness ==
    \E c, d \in Callers :
       /\ c # d
       /\ pc[c] \in {"st_strategy", "dp_fetch"}
       /\ pc[d] = "idle"
       /\ result[d] = Err(ErrSyncInProgress)
       /\ status.is_syncing
       /\ status.last_sync # Null
       /\ status.last_error # NoError

\* ------------------------------------------- the flag reset of the engine
\* Caller c's sync_table or sync_all_tables call, which passed the check of
\* is_syncing, returns in this step (a sync_table call made by the loop of
\* perform_all_tables_sync returns to the loop).
ReturnsNow(c) == pc[c] \in {"st_exit", "sa_exit"} /\ pc'[c] # pc[c]

\* The strategy passes a call that returns `res` may have started: none
\* when the probe or the registry lookup failed, the failing pass alone when
\* the strategy failed.
PassesOnError(c, res) ==
    IF res = Err(ErrStrategy) /\ pc[c] = "st_exit" /\ ret[c] = "idle"
    THEN [t \in Tables |-> IF t = cur[c] THEN 1 ELSE 0]
    ELSE NoRuns

\* C35: every sync_table or sync_all_tables call that passed the check of
\* is_syncing has reset is_syncing to false when it returns, whether it
\* succeeded, found the remote offline, found no strategy for the table or
\* got an error from the strategy; when it returns an error, no strategy
\* pass but the failing one was started and last_sync keeps its value.
C35_FlagResetOnEveryOutcome ==
    [][\A c \in Callers :
          ReturnsNow(c) =>
             /\ ~status'.is_syncing
             /\ ~inner[c].ok => status'.last_sync = status.last_sync
             /\ (~inner[c].ok /\ ret[c] = "idle") =>
                   runs[c] = PassesOnError(c, inner[c])]_vars

\* Two calls have returned errors, one for a table without a strategy and
\* one from the strategy, after an earlier sync had completed: the flag is
\* down and last_sync is still the time of the earlier sync.
C35_Witness ==
    \E c, d \in Callers :
       /\ pc[c] = "idle" /\ pc[d] = "idle"
       /\ result[c] = Err(ErrNoStrategy)
       /\ result[d] = Err(ErrStrategy)
       /\ ~status.is_syncing
       /\ status.last_sync # Null
       /\ status.last_sync < now

\* ---------------------------------- a pass with a pending local change
\* Largest value of the wall clock in the runs of this section: a local
\* change, a later remote write and a still later re-probe take three
\* instants.
MaxLate == 3

\* The wall clock advances.
LateTick ==
    /\ now < MaxLate
    /\ now' = now + 1
    /\ UNCHANGED <<engineVars, dataVars, otherVars>>

\* The local databases with record "7" present, with a pending local change
\* or synced, and record "b1" absent or synced.
PendingStore ==
    \E pending \in BOOLEAN, other \in BOOLEAN :
       /\ rows = [k \in RowKeys |->
                    IF k = "7" \/ (k = "b1" /\ other) THEN LocalRow ELSE NoRow]
       /\ meta = [k \in MetaKeys |->
                    IF k = "7" THEN (IF pending THEN PendingMeta ELSE SyncedMeta)
                    ELSE IF k = "b1" /\ other THEN SyncedMeta
                    ELSE NoMeta]

TwoWayPendingInit ==
    /\ status = InitialStatus
    /\ strategies = {}
    /\ CallersIdle
    /\ now = 1
    /\ PendingStore
    /\ lastCall = NoCall
    /\ remote = [i \in Ids |-> NoRemoteRow]
    /\ tw = IdlePass
    /\ OthersIdle

TwoWayLateNext ==
    \/ LateTick
    \/ \E i \in Ids, title \in Titles : RemoteWrite(i, title)
    \/ TwStart
    \/ \E ok \in BOOLEAN : TwFetch(ok)
    \/ \E failAt \in 0..(2 * Cardinality(Ids)) : TwApply(failAt)
    \/ \E ok \in BOOLEAN : TwProbe(ok)
    \/ \E answers \in UNION {[1..n -> Answers] : n \in 1..Cardinality(Ids)} :
          TwPush(answers)
    \/ \E ok \in BOOLEAN : TwMark(ok)
    \/ TwReturn

SpecTwoWayLate == TwoWayPendingInit /\ [][TwoWayLateNext]_vars

\* The same stores with the clock of the other sections.
SpecTwoWayPending == TwoWayPendingInit /\ [][TwoWayNext]_vars

\* ------------------------------------- the split of the local changes
\* The pass is past its push: the push was made or there was nothing to push.
PastPush ==
    \/ tw.pc \in {"mark", "done"}
    \/ tw.pc = "failed" /\ tw.err \in {"push_changes", "set_last_sync_time"}

\* How often change ch occurs in the arguments of the push_changes calls of
\* the pass, and in its conflicts.
TimesPushed(ch) ==
    Cardinality({pj \in UNION {{<<p, j>> : j \in 1..Len(tw.pushes[p])} :
                                  p \in 1..Len(tw.pushes)} :
                    tw.pushes[pj[1]][pj[2]] = ch})
TimesHeldBack(ch) ==
    Cardinality({j \in 1..Len(tw.conflicts) : tw.conflicts[j] = ch})

\* C36: in a Two-Way pass that got as far as its push, push_changes was
\* called at most once, and every local change get_changes returned is
\* either in the argument of that call or among the conflicts, once and not
\* both; it is among the conflicts exactly when the remote re-probe returned
\* a record with its id.
C36_LocalChangeHandledOnce ==
    PastPush =>
       /\ Len(tw.pushes) <= 1
       /\ \A k \in 1..Len(tw.local_changes) :
             LET ch == tw.local_changes[k]
             IN /\ TimesPushed(ch) + TimesHeldBack(ch) = 1
                /\ TimesHeldBack(ch) = 1
                      <=> ChangeId(ch) \in ReportedIds(tw.latest_remote)
       /\ Len(tw.conflicts) + Pushed(tw) = Len(tw.local_changes)

\* A pass has ended with a local change held back as a conflict.
C36_Witness ==
    /\ tw.pc = "done"
    /\ tw.local_changes # <<>>
    /\ tw.conflicts # <<>>
    /\ tw.pushes = <<>>

\* ------------------------------------ a newer remote record and the push
\* The remote deltas of the pass hold a record for the id of local change
\* ch, updated later than ch.
RemoteIsNewer(ch) ==
    \E k \in 1..Len(tw.remote_changes) :
       /\ tw.remote_changes[k].metadata.id = ChangeId(ch)
       /\ tw.remote_changes[k].metadata.updated_at > ch.metadata.updated_at

\* C37: a Two-Way pass does not push a local change for an id when the
\* remote deltas of the pass hold a record for that id with a later
\* updated_at: a newer remote record is not overwritten by an older local
\* one.
C37_NewerRemoteNotOverwritten ==
    \A k \in 1..Len(tw.local_changes) :
       RemoteIsNewer(tw.local_changes[k])
          => TimesPushed(tw.local_changes[k]) = 0

\* ------------------------------------------ SyncService::push_to_supabase
\* Number of entries the application adds to sync_queue in one run.
MaxEntries == 2
\* The operation column of an entry ("TRUNCATE" stands for any other text)
\* and its data column: JSON text or text that does not parse.
Operations == {"INSERT", "UPDATE", "DELETE", "TRUNCATE"}
DataTexts == {"json", "text"}
\* The LIMIT push_to_supabase passes to get_unsynced_records.
UnsyncedLimit == 100

\* What the remote does with a request: 2xx, another status, or no answer.
RemoteAnswers == {"2xx", "non2xx", "error"}

\* upsert_remote_record with the status of the response not looked at.
UpsertRemoteRecord_AnyStatus(answer) == answer # "error"
\* upsert_remote_record: Ok when the request went through and the status is
\* a success.
UpsertRemoteRecord(answer) == answer = "2xx"
\* delete_remote_record: the same test on the response of the DELETE.
DeleteRemoteRecord(answer) == answer = "2xx"

\* get_unsynced_records: the entries of the table in created_at order, at
\* most `limit` of them.
GetUnsyncedRecords(queue, limit) == Take(queue, limit)

\* mark_synced: DELETE FROM sync_queue WHERE id = ?.
MarkSynced(queue, id) == SelectSeq(queue, LAMBDA e : e.id # id)

ServiceInit ==
    /\ status = InitialStatus
    /\ strategies = {}
    /\ CallersIdle
    /\ now = 1
    /\ DataIdle
    /\ OthersIdle

serviceFrame == <<engineVars, now, dataVars, rcall, bg, sp, ec, builder>>

\* add_to_sync_queue: a new entry at the end of the table.
AddToSyncQueue(operation, data) ==
    /\ svc.added < MaxEntries
    /\ svc' = [svc EXCEPT !.added = @ + 1,
                          !.queue = Append(@, [id |-> svc.added + 1,
                                               operation |-> operation,
                                               data |-> data])]
    /\ UNCHANGED serviceFrame

\* push_to_supabase up to its loop; ok is whether the SELECT succeeds.
PushStart(ok) ==
    /\ svc.pc = "idle"
    /\ svc' = IF ok
              THEN [svc EXCEPT !.pc = "loop",
                               !.unsynced = GetUnsyncedRecords(svc.queue, UnsyncedLimit),
                               !.last = [id |-> 0, how |-> ""]]
              ELSE [svc EXCEPT !.pc = "failed", !.last = [id |-> 0, how |-> ""]]
    /\ UNCHANGED serviceFrame

\* How one iteration of the loop ends for entry e, the remote answering
\* `answer`: the data does not parse ("undecodable": the call returns the
\* error), the remote call failed ("refused": logged, continue), the
\* operation is unknown ("skipped": continue), or the entry goes on to
\* mark_synced ("sent").
Iteration(e, answer) ==
    CASE e.operation \in {"INSERT", "UPDATE"} ->
            IF e.data # "json" THEN "undecodable"
            ELSE IF UpsertRemoteRecord(answer) THEN "sent" ELSE "refused"
      [] e.operation = "DELETE" ->
            IF DeleteRemoteRecord(answer) THEN "sent" ELSE "refused"
      [] OTHER -> "skipped"

\* Whether the iteration makes a request to the remote at all.
CallsRemote(e) ==
    \/ e.operation \in {"INSERT", "UPDATE"} /\ e.data = "json"
    \/ e.operation = "DELETE"

\* One iteration of `for (sync_id, record_id, operation, data) in unsynced`;
\* marked is whether the DELETE of mark_synced succeeds.
PushEntry(answer, marked) ==
    /\ svc.pc = "loop"
    /\ svc.unsynced # <<>>
    /\ LET e == Head(svc.unsynced)
           how == Iteration(e, answer)
           seen == [svc EXCEPT !.unsynced = Tail(@),
                               !.last = [id |-> e.id, how |-> how],
                               !.accepted = IF CallsRemote(e) /\ answer = "2xx"
                                            THEN @ \cup {e.id} ELSE @]
       IN svc' = CASE how = "undecodable" -> [seen EXCEPT !.pc = "failed"]
                   [] how = "sent" /\ marked ->
                         [seen EXCEPT !.queue = MarkSynced(@, e.id)]
                   [] how = "sent" /\ ~marked -> [seen EXCEPT !.pc = "failed"]
                   [] OTHER -> seen
    /\ UNCHANGED serviceFrame

\* The loop is over: Ok(()).
PushEnd ==
    /\ svc.pc = "loop"
    /\ svc.unsynced = <<>>
    /\ svc' = [svc EXCEPT !.pc = "done"]
    /\ UNCHANGED serviceFrame

\* push_to_supabase has returned; it can be called again.
PushReturn ==
    /\ svc.pc \in {"done", "failed"}
    /\ svc' = [svc EXCEPT !.pc = "idle", !.unsynced = <<>>]
    /\ UNCHANGED serviceFrame

ServiceNext ==
    \/ \E operation \in Operations, data \in DataTexts :
          AddToSyncQueue(operation, data)
    \/ \E ok \in BOOLEAN : PushStart(ok)
    \/ \E answer \in RemoteAnswers, marked \in BOOLEAN : PushEntry(answer, marked)
    \/ PushEnd
    \/ PushReturn

SpecService == ServiceInit /\ [][ServiceNext]_vars

\* The ids of the entries in the queue.
QueuedIds(queue) == {queue[k].id : k \in 1..Len(queue)}

\* C38: push_to_supabase deletes an entry of sync_queue only after the
\* remote accepted the upsert or delete made for it; an entry whose remote
\* call fails stays in the queue, and the loop goes on with the entries
\* after it.
C38_MarkedOnlyWhenAccepted ==
    [][/\ \A id \in QueuedIds(svc.queue) \ QueuedIds(svc'.queue) :
             id \in svc'.accepted
       /\ (svc.pc = "loop" /\ svc'.last # svc.last /\ svc'.last.how = "refused")
             => /\ svc'.last.id \in QueuedIds(svc'.queue)
                /\ svc'.pc = "loop"
                /\ svc'.unsynced = Tail(svc.unsynced)]_vars

\* One call has gone through two entries: the remote refused the delete
\* made for the first, which is still queued, and accepted the call made
\* for the second, which has been deleted.
C38_Witness ==
    /\ svc.added = 2
    /\ Len(svc.queue) = 1
    /\ svc.queue[1].operation = "DELETE"
    /\ svc.last = [id |-> 2, how |-> "sent"]
    /\ QueuedIds(svc.queue) = {1}
    /\ svc.accepted = {2}
    /\ svc.pc = "done"

\* ------------------------------------- the background task on its own
\* The command layer may call check_connectivity before the task is
\* started; once start_background_sync has been called nothing but the task
\* uses the engine, and the remote answers every probe of the task.
CheckConnectivityBeforeStart(b) ==
    /\ bg.pc = "off"
    /\ CheckConnectivity(b)

\* The steps of the task and of the sync_all_tables call it makes, the
\* remote being reachable.
BackgroundAloneNext ==
    \/ Tick
    \/ \E b \in BOOLEAN : CheckConnectivityBeforeStart(b)
    \/ StartBackgroundSync
    \/ BgTick
    \/ BgCheck
    \/ BgSyncAllTables
    \/ PerformAllTablesSync(BgCaller, TRUE)
    \/ \E t \in Tables : AllTablesLoop(BgCaller, t)
    \/ AllTablesLoopEnd(BgCaller)
    \/ SyncAllTablesExit(BgCaller)
    \/ BgReturn

\* The interval fires, and the runtime keeps polling the task: every step
\* of the task that can be taken is taken.
BackgroundAloneFairness ==
    /\ WF_vars(BgTick)
    /\ WF_vars(BgCheck)
    /\ WF_vars(BgSyncAllTables)
    /\ WF_vars(PerformAllTablesSync(BgCaller, TRUE))
    /\ WF_vars(\E t \in Tables : AllTablesLoop(BgCaller, t))
    /\ WF_vars(AllTablesLoopEnd(BgCaller))
    /\ WF_vars(SyncAllTablesExit(BgCaller))
    /\ WF_vars(BgReturn)

SpecBackgroundAlone ==
    BackgroundInit /\ [][BackgroundAloneNext]_vars /\ BackgroundAloneFairness

\* The task's sync_all_tables call has passed the check of is_syncing: a
\* sync pass over the registered tables is running.
BgPassRuns == pc[BgCaller] \in {"sa_perform", "sa_loop", "sa_exit"}

\* C39: on an engine used by the background task alone, with the remote
\* reachable, a sync pass over the registered tables eventually runs once
\* start_background_sync has been called.
C39_BackgroundEventuallySyncs ==
    (bg.pc # "off") ~> BgPassRuns

====
